---- MODULE Spec2Model ----
(***************************************************************************)
(* Task lifecycle of the backend: the three task tables of config.py, the  *)
(* submission and status/download handlers of backend/api, the three       *)
(* orchestrators of backend/core, and the retry wrapper of core/utils.py.  *)
(*                                                                         *)
(* Scheduling.  run_arxiv_search_and_process is a coroutine run on the     *)
(* event loop: it yields only at `await asyncio.gather(...)`, so what it   *)
(* does before and after that await is one step each.  The merge and the   *)
(* style orchestrators are plain functions, run on worker threads: their   *)
(* steps interleave with everything else.  A step of a thread runs from    *)
(* one blocking call (archive, file-system, model call) to the next.       *)
(*                                                                         *)
(* Log entries are tags standing for the formatted message texts.          *)
(*                                                                         *)
(* Beside the task system (Spec) eight parts are followed one call at a   *)
(* time, each under its own specification: the retry wrapper (RetrySpec),  *)
(* search_arxiv_by_date_range with the CSV name (SearchSpec), the split of *)
(* the source document in the merge (SplitSpec), the professional-mode     *)
(* selection of t.py (SelectSpec), find_main_tex_file with its nested      *)
(* retry wrappers (FindSpec), the gated translation calls of the search    *)
(* (TranslateSpec), the file trees of the merge (TreeSpec) and the         *)
(* bibliography lines of the merge (BibSpec).                              *)
(***************************************************************************)
EXTENDS Integers, Sequences, FiniteSets, TLC

\* ------------------------------------------------------------ bounds
MaxTasks == 2
MaxPapers == 1
MaxPlanLen == 4

\* ------------------------------------------------------------ program constants
MAX_RETRIES == 3
GENERATION_ROUNDS == 7

VARIABLES
    background_tasks,      \* config.background_tasks: run_id -> record (search)
    conversion_tasks,      \* config.conversion_tasks: run_id -> record (merge)
    style_transfer_tasks,  \* config.style_transfer_tasks: run_id -> record (style)
    next_id,               \* the next fresh run id (uuid4 never repeats)
    issued,                \* run_id -> the workflow whose submission returned it
    style_module,          \* which copy of style_transfer_logic is installed
    pc,                    \* run_id -> position of the task's orchestrator
    stage,                 \* run_id -> index of the stage a thread is about to run
    params,                \* run_id -> the request snapshot handed to add_task
    papers,                \* run_id -> len(papers) of the search orchestrator
    work_dirs,             \* the run ids whose workspace/work_dir_<run_id> exists
    outputs,               \* outputs_dir: path -> content of the file
    r_plan,                \* retry: what the wrapped function does at each call
    r_pc,                  \* retry: position inside wrapper()
    r_attempt,             \* retry: the loop variable `attempt`
    r_calls,               \* retry: number of invocations of func so far
    r_warnings,            \* retry: the logging.warning records, in order
    r_errors,              \* retry: the logging.error records, in order
    r_last,                \* retry: last_exception
    r_out,                 \* retry: what wrapper() returned or raised
    q_request,             \* search: the request_params of the run being followed
    q_pc,                  \* search: position inside search_arxiv_by_date_range
    q_after,               \* search: where the current pass returns to
    unique_papers,         \* search: the dict unique_papers, in insertion order
    retrieved_count,       \* search: retrieved_count of the current pass
    optional_keywords,     \* search: optional_keywords after random.shuffle
    q_i,                   \* search: how many optional keywords have been tried
    q_seen_again,          \* search: a recorded entry id came back with other data
    q_events,              \* search: log entries, provider queries and sleeps, in order
    q_rows,                \* search: the rows written to the CSV
    csv_filename,          \* search: the name of the CSV
    content_text,          \* merge split: the source primary document
    split_pc,              \* merge split: position in the header-merge stage
    content_header,        \* merge split: content_text[:content_split_index]
    content_body,          \* merge split: content_text[content_split_index:content_end_index]
    header_calls,          \* merge split: number of call_llm(header_prompt) made
    generated_results,     \* selection: the candidates generated so far
    sel_prompts,           \* selection: the prompt of each generation call
    sel_pc,                \* selection: position in the professional-mode branch
    sel_attempts,          \* selection: what each attempt of the selection call gave
    final_results_raw,     \* selection: the parsed selection response
    final_results,         \* selection: the final result list
    sel_status,            \* selection: the status of the task
    tex_files,             \* main file: the number of .tex files in the extracted tree
    f_pc,                  \* main file: position in find_main_tex_file and its wrappers
    f_attempt,             \* main file: `attempt` of the wrapper of find_main_tex_file
    llm_attempt,           \* main file: `attempt` of the wrapper of call_llm
    f_requests,            \* main file: chat-completion requests sent
    f_answers,             \* main file: what each request gave, in order
    f_sleeps,              \* main file: calls of time.sleep(2)
    f_runs,                \* main file: executions of the body of find_main_tex_file
    f_warnings,            \* main file: WARNING entries appended to process_log
    f_last,                \* main file: last_exception of the wrapper that caught last
    main_file,             \* main file: the number of the returned file, 0 for none
    t_papers,              \* translation: the papers, in the order of the search result
    t_pc,                  \* translation: position of run_arxiv_search_and_process
    t_co,                  \* translation: item -> state of its translate_one_abstract
    semaphore,             \* translation: the value of the asyncio.Semaphore
    t_finished,            \* translation: the items in the order their coroutines returned
    t_returned,            \* translation: item -> what its coroutine returned
    t_rows,                \* translation: the rows written to the CSV
    t_status,              \* translation: the status of the task
    content_dir,           \* merge trees: the paths of the extracted source tree
    format_dir_0,          \* merge trees: the paths of the template tree as extracted
    content_main_path,     \* merge trees: the source's main file
    format_main_path,      \* merge trees: the template's main file
    format_dir,            \* merge trees: path -> content of the target tree
    tree_pc,               \* merge trees: position in convert_paper_format_logic
    tree_content_text,     \* merge trees: the content read as content_text
    tree_format_text,      \* merge trees: the content read as format_text
    output_zip,            \* merge trees: path -> content of the packaged tree
    tree_status,           \* merge trees: the status of the task
    bib_content_text,      \* merge bibliography: the lines of the source's main file
    bib_format_lines,      \* merge bibliography: has the template bibliography lines
    bib_pc,                \* merge bibliography: position in convert_paper_format_logic
    bib_content_body,      \* merge bibliography: content_body
    content_bib_lines,     \* merge bibliography: the bibliography lines of the source
    final_bib_section,     \* merge bibliography: the section appended after the body
    final_tex_content      \* merge bibliography: the assembled document

task_vars == <<background_tasks, conversion_tasks, style_transfer_tasks, next_id,
               issued, style_module, pc, stage, params, papers, work_dirs, outputs>>
retry_vars == <<r_plan, r_pc, r_attempt, r_calls, r_warnings, r_errors, r_last, r_out>>
query_vars == <<q_request, q_pc, q_after, unique_papers, retrieved_count,
                optional_keywords, q_i, q_seen_again, q_events, q_rows, csv_filename>>
split_vars == <<content_text, split_pc, content_header, content_body, header_calls>>
select_vars == <<generated_results, sel_prompts, sel_pc, sel_attempts, final_results_raw,
                 final_results, sel_status>>
find_vars == <<tex_files, f_pc, f_attempt, llm_attempt, f_requests, f_answers, f_sleeps, f_runs,
               f_warnings, f_last, main_file>>
translate_vars == <<t_papers, t_pc, t_co, semaphore, t_finished, t_returned, t_rows, t_status>>
tree_vars == <<content_dir, format_dir_0, content_main_path, format_main_path, format_dir,
               tree_pc, tree_content_text, tree_format_text, output_zip, tree_status>>
bib_vars == <<bib_content_text, bib_format_lines, bib_pc, bib_content_body, content_bib_lines,
              final_bib_section, final_tex_content>>
fn_vars == <<query_vars, split_vars, select_vars, find_vars, translate_vars, tree_vars,
             bib_vars>>
\* what a function followed on its own leaves unchanged
not_query_vars == <<task_vars, retry_vars, split_vars, select_vars, find_vars, translate_vars,
    tree_vars, bib_vars>>
not_split_vars == <<task_vars, retry_vars, query_vars, select_vars, find_vars, translate_vars,
    tree_vars, bib_vars>>
not_select_vars == <<task_vars, retry_vars, query_vars, split_vars, find_vars, translate_vars,
    tree_vars, bib_vars>>
not_find_vars == <<task_vars, retry_vars, query_vars, split_vars, select_vars, translate_vars,
    tree_vars, bib_vars>>
not_translate_vars == <<task_vars, retry_vars, query_vars, split_vars, select_vars, find_vars,
    tree_vars, bib_vars>>
not_tree_vars == <<task_vars, retry_vars, query_vars, split_vars, select_vars, find_vars,
    translate_vars, bib_vars>>
not_bib_vars == <<task_vars, retry_vars, query_vars, split_vars, select_vars, find_vars,
    translate_vars, tree_vars>>
vars == <<task_vars, retry_vars, fn_vars>>

RunIds == 1..MaxTasks
\* Python's None where a record (a path, a payload, a request) is expected
None == [none |-> TRUE]
Terminal == {"completed", "failed"}

\* an assignment that writes v under every key of the table
PutUnderEveryKey(d, k, v) == [x \in (DOMAIN d) \cup {k} |-> v]

\* dict helpers: d[k] = v on a table whose domain grows
Put(d, k, v) == [x \in (DOMAIN d) \cup {k} |-> IF x = k THEN v ELSE d[x]]
EmptyDict == [x \in {} |-> None]

\* ------------------------------------------------------------ requests
\* ArxivSearchRequest as far as the orchestrator branches on it: whether
\* start_date/end_date parse and are ordered, and whether target_language is
\* a non-blank string ("" stands for None and for a blank string).
SearchRequests == [dates_ok : BOOLEAN, target_language : {"", "Chinese"}]
\* StyleTransferRequest.mode
StyleModes == {"standard", "professional"}
\* the keys of request.dict() for a StyleTransferRequest
StyleRequestFields == {"original_text", "must_include_keywords", "reference_keywords",
                       "style_requirements", "style_example", "mode"}
\* The repository holds two copies of the style module: the one the API
\* imports, backend/core/style_transfer_logic.py, and its version 2.0, t.py.
StyleModules == {"core", "t"}

\* ------------------------------------------------------------ records
AppendLog(rec, entries) == [rec EXCEPT !.summary = @ \o entries]

\* dict.update({"status": "failed", "summary": process_log}) after
\* process_log.append("FATAL_ERROR: ...") : the except block of an orchestrator
Fail(rec) == [AppendLog(rec, <<"FATAL_ERROR">>) EXCEPT !.status = "failed"]

\* ------------------------------------------------------------ output files
\* arxiv_papers_<topic>_<start>_to_<end>_<lang>_<count>.csv : the request fields
\* the model keeps, and the number of papers
CsvPath(req, count) ==
    [kind |-> "csv", run |-> 0,
     lang |-> IF req.target_language = "" THEN "en" ELSE req.target_language,
     count |-> count]
\* <run_id>_converted_paper.zip
ZipPath(r) == [kind |-> "zip", run |-> r, lang |-> "", count |-> 0]
\* csv: writeheader() and one writerow per paper
CsvFile(count) == [header |-> TRUE, rows |-> count]
ZipFile(r) == [header |-> FALSE, rows |-> 0]

\* ------------------------------------------------------------ submission
\* POST /api/arxiv/start_search
start_arxiv_search(r, req) ==
    /\ r = next_id
    /\ r \in RunIds
    /\ background_tasks' = Put(background_tasks, r,
            [status |-> "processing", summary |-> <<"created">>, output_path |-> None])
    /\ params' = [params EXCEPT ![r] = req]
    /\ issued' = [issued EXCEPT ![r] = "search"]
    /\ pc' = [pc EXCEPT ![r] = "queued"]
    /\ next_id' = next_id + 1
    /\ UNCHANGED <<style_module, conversion_tasks, style_transfer_tasks, stage, papers, work_dirs,
                   outputs, retry_vars, fn_vars>>

\* POST /api/latex_format/convert
create_conversion_task(r) ==
    /\ r = next_id
    /\ r \in RunIds
    /\ conversion_tasks' = Put(conversion_tasks, r,
            [status |-> "processing", summary |-> <<"created">>, output_path |-> None])
    /\ issued' = [issued EXCEPT ![r] = "merge"]
    /\ pc' = [pc EXCEPT ![r] = "queued"]
    /\ next_id' = next_id + 1
    /\ UNCHANGED <<style_module, background_tasks, style_transfer_tasks, stage, params, papers,
                   work_dirs, outputs, retry_vars, fn_vars>>

\* POST /api/style_transfer/run
start_style_transfer_task(r, mode) ==
    /\ r = next_id
    /\ r \in RunIds
    /\ style_transfer_tasks' = Put(style_transfer_tasks, r,
            [status |-> "processing", summary |-> <<"created">>, result |-> None])
    /\ params' = [params EXCEPT ![r] = [mode |-> mode, keys |-> StyleRequestFields]]
    /\ issued' = [issued EXCEPT ![r] = "style"]
    /\ pc' = [pc EXCEPT ![r] = "queued"]
    /\ next_id' = next_id + 1
    /\ UNCHANGED <<style_module, background_tasks, conversion_tasks, stage, papers, work_dirs,
                   outputs, retry_vars, fn_vars>>

\* ------------------------------------------------------------ search orchestrator
\* arxiv_logic.py 223-259 and the finally block: build the file name, write
\* the CSV, register it; open() or the writer may raise
search_write(r, rec, count, write_ok) ==
    /\ IF write_ok
       THEN /\ outputs' = Put(outputs, CsvPath(params[r], count), CsvFile(count))
            /\ background_tasks' = Put(background_tasks, r,
                   [AppendLog(rec, <<"writing", "success">>) EXCEPT
                        !.status = "completed",
                        !.output_path = CsvPath(params[r], count)])
       ELSE /\ outputs' = outputs
            /\ background_tasks' = Put(background_tasks, r,
                   Fail(AppendLog(rec, <<"writing">>)))
    /\ work_dirs' = work_dirs \ {r}
    /\ pc' = [pc EXCEPT ![r] = "done"]

\* run_arxiv_search_and_process from its first line to `await asyncio.gather`
\* or to its return, whichever comes first
run_arxiv_search_and_process(r) ==
    /\ r \in DOMAIN background_tasks
    /\ pc[r] = "queued"
    /\ LET rec == background_tasks[r]
           req == params[r]
       IN \E mkdir_ok \in BOOLEAN, provider_ok \in BOOLEAN, count \in 0..MaxPapers,
             write_ok \in BOOLEAN :
          IF ~mkdir_ok
          THEN \* work_dir.mkdir(exist_ok=True) raises, outside the try
               /\ pc' = [pc EXCEPT ![r] = "crashed"]
               /\ UNCHANGED <<background_tasks, papers, work_dirs, outputs>>
          ELSE IF ~req.dates_ok
          THEN \* search_arxiv_by_date_range raises ValueError
               /\ background_tasks' = Put(background_tasks, r, Fail(rec))
               /\ work_dirs' = work_dirs \ {r}
               /\ pc' = [pc EXCEPT ![r] = "done"]
               /\ UNCHANGED <<papers, outputs>>
          ELSE LET \* search_arxiv_by_date_range: a provider error is logged as a
                   \* warning inside _perform_search and is not raised
                   searched == AppendLog(rec,
                       <<"search_range",
                         IF provider_ok THEN "search_pass" ELSE "search_warning",
                         "search_total">>)
               IN /\ papers' = [papers EXCEPT ![r] = count]
                  /\ IF count = 0
                     THEN \* if not papers: ... return
                          /\ background_tasks' = Put(background_tasks, r,
                                 [AppendLog(searched, <<"no_papers">>) EXCEPT
                                      !.status = "completed"])
                          /\ work_dirs' = work_dirs \ {r}
                          /\ pc' = [pc EXCEPT ![r] = "done"]
                          /\ outputs' = outputs
                     ELSE IF req.target_language # ""
                     THEN /\ background_tasks' = Put(background_tasks, r,
                                 [AppendLog(searched, <<"translating">>) EXCEPT
                                      !.status = "translating"])
                          /\ work_dirs' = work_dirs \cup {r}
                          /\ pc' = [pc EXCEPT ![r] = "gather"]
                          /\ outputs' = outputs
                     ELSE search_write(r, AppendLog(searched, <<"no_translation">>),
                                       count, write_ok)
    /\ UNCHANGED <<style_module, conversion_tasks, style_transfer_tasks, next_id, issued, stage,
                   params,
                   retry_vars, fn_vars>>

\* run_arxiv_search_and_process from the return of asyncio.gather to its end
run_arxiv_search_resume(r) ==
    /\ r \in DOMAIN background_tasks
    /\ pc[r] = "gather"
    /\ \E write_ok \in BOOLEAN :
          search_write(r, AppendLog(background_tasks[r], <<"translated">>),
                       papers[r], write_ok)
    /\ UNCHANGED <<style_module, conversion_tasks, style_transfer_tasks, next_id, issued, stage,
                   params,
                   papers, retry_vars, fn_vars>>

\* ------------------------------------------------------------ merge orchestrator
\* The stages of convert_paper_format_logic's try block, each named by the log
\* entry it appends when it returns; each of them may raise instead.
MergeStages == <<"content_extracted",   \* extract_archive(content)       182-183
                 "format_extracted",    \* extract_archive(format)        184-185
                 "content_main_found",  \* find_main_tex_file(content)    188-189
                 "format_main_found",   \* find_main_tex_file(format)     190-191
                 "backed_up",           \* shutil.copy2                   193-195
                 "copied",              \* shutil.copytree                199-200
                 "header_merged",       \* split, call_llm(header_prompt) 204-255
                 "bib_handled",         \* bibliography, call_llm         258-284
                 "main_written",        \* write_text                     287-289
                 "success">>            \* make_archive, register         292-302

\* convert_start with `process_log = []`: the first entry is appended later
convert_start_empty_log(r) ==
    /\ r \in DOMAIN conversion_tasks
    /\ pc[r] = "queued"
    /\ conversion_tasks' = [conversion_tasks EXCEPT ![r].summary = <<>>]
    /\ pc' = [pc EXCEPT ![r] = "mkdir"]
    /\ UNCHANGED <<style_module, background_tasks, style_transfer_tasks, next_id, issued, stage, params,
                   papers, work_dirs, outputs, retry_vars, fn_vars>>

\* format_convert.py 170-171: a new list replaces the record's summary
convert_start(r) ==
    /\ r \in DOMAIN conversion_tasks
    /\ pc[r] = "queued"
    /\ conversion_tasks' = [conversion_tasks EXCEPT ![r].summary = <<"started">>]
    /\ pc' = [pc EXCEPT ![r] = "mkdir"]
    /\ UNCHANGED <<style_module, background_tasks, style_transfer_tasks, next_id, issued, stage,
                   params,
                   papers, work_dirs, outputs, retry_vars, fn_vars>>

\* format_convert.py 173-175, outside the try: rmtree of a stale directory of
\* the same name, then mkdir; either may raise
convert_mkdir(r) ==
    /\ r \in DOMAIN conversion_tasks
    /\ pc[r] = "mkdir"
    /\ \E mkdir_ok \in BOOLEAN :
          IF mkdir_ok
          THEN /\ work_dirs' = work_dirs \cup {r}
               /\ pc' = [pc EXCEPT ![r] = "stages"]
               /\ stage' = [stage EXCEPT ![r] = 1]
          ELSE /\ pc' = [pc EXCEPT ![r] = "crashed"]
               /\ UNCHANGED <<work_dirs, stage>>
    /\ UNCHANGED <<style_module, background_tasks, conversion_tasks, style_transfer_tasks, next_id,
                   issued, params, papers, outputs, retry_vars, fn_vars>>

\* one stage of the try block (180-302), with the except block (304-307) when
\* the stage raises
convert_stage(r) ==
    /\ r \in DOMAIN conversion_tasks
    /\ pc[r] = "stages"
    /\ LET rec == conversion_tasks[r]
           k == stage[r]
       IN \E ok \in BOOLEAN :
          IF ~ok
          THEN /\ conversion_tasks' = [conversion_tasks EXCEPT ![r] = Fail(rec)]
               /\ pc' = [pc EXCEPT ![r] = "finally"]
               /\ UNCHANGED <<stage, outputs>>
          ELSE IF k < Len(MergeStages)
          THEN /\ conversion_tasks' =
                     [conversion_tasks EXCEPT ![r] = AppendLog(rec, <<MergeStages[k]>>)]
               /\ stage' = [stage EXCEPT ![r] = k + 1]
               /\ UNCHANGED <<pc, outputs>>
          ELSE /\ outputs' = Put(outputs, ZipPath(r), ZipFile(r))
               /\ conversion_tasks' = [conversion_tasks EXCEPT ![r] =
                     [AppendLog(rec, <<MergeStages[k]>>) EXCEPT
                          !.status = "completed", !.output_path = ZipPath(r)]]
               /\ pc' = [pc EXCEPT ![r] = "finally"]
               /\ UNCHANGED stage
    /\ UNCHANGED <<style_module, background_tasks, style_transfer_tasks, next_id, issued, params, papers,
                   work_dirs, retry_vars, fn_vars>>

\* convert_finally reporting a cleanup problem as a failure of the task
convert_finally_marks_failed(r) ==
    /\ r \in DOMAIN conversion_tasks
    /\ pc[r] = "finally"
    /\ work_dirs' = work_dirs \ {r}
    /\ conversion_tasks' = [conversion_tasks EXCEPT ![r] = Fail(@)]
    /\ pc' = [pc EXCEPT ![r] = "done"]
    /\ UNCHANGED <<style_module, background_tasks, style_transfer_tasks, next_id,
                   issued, stage, params, papers, outputs, retry_vars, fn_vars>>

\* convert_finally as a cleanup at the end of the try block: skipped when a
\* stage has raised
convert_finally_on_success_only(r) ==
    /\ r \in DOMAIN conversion_tasks
    /\ pc[r] = "finally"
    /\ work_dirs' = IF conversion_tasks[r].status = "completed"
                    THEN work_dirs \ {r} ELSE work_dirs
    /\ pc' = [pc EXCEPT ![r] = "done"]
    /\ UNCHANGED <<style_module, background_tasks, conversion_tasks, style_transfer_tasks, next_id,
                   issued, stage, params, papers, outputs, retry_vars, fn_vars>>

\* format_convert.py 308-311: the finally block
convert_finally(r) ==
    /\ r \in DOMAIN conversion_tasks
    /\ pc[r] = "finally"
    /\ work_dirs' = work_dirs \ {r}
    /\ pc' = [pc EXCEPT ![r] = "done"]
    /\ UNCHANGED <<style_module, background_tasks, conversion_tasks, style_transfer_tasks, next_id,
                   issued, stage, params, papers, outputs, retry_vars, fn_vars>>

\* ------------------------------------------------------------ style orchestrator
\* the keyword parameters build_prompt declares: t.py adds `mode`
BuildPromptParams(module) ==
    {"original_text", "must_include_keywords", "reference_keywords",
     "style_requirements", "style_example", "previous_results"}
    \cup (IF module = "t" THEN {"mode"} ELSE {})

\* build_prompt(**request_params): a key that is no parameter is a TypeError
build_prompt_raises(module, keys) == ~(keys \subseteq BuildPromptParams(module))

\* the model calls of one run: generation, (selection,) suggestions
StyleCalls(mode) == IF mode = "professional" THEN GENERATION_ROUNDS + 2 ELSE 2

\* run_style_transfer_logic from its first line to its first model call, or
\* to its end when build_prompt raises before any call is made
run_style_transfer_logic(r) ==
    /\ r \in DOMAIN style_transfer_tasks
    /\ pc[r] = "queued"
    /\ LET started == AppendLog(style_transfer_tasks[r],
                         IF params[r].mode = "professional"
                         THEN <<"professional_mode", "round_started">>
                         ELSE <<"standard_mode">>)
       IN IF build_prompt_raises(style_module, params[r].keys)
          THEN /\ style_transfer_tasks' = [style_transfer_tasks EXCEPT ![r] = Fail(started)]
               /\ pc' = [pc EXCEPT ![r] = "done"]
               /\ UNCHANGED stage
          ELSE /\ style_transfer_tasks' = [style_transfer_tasks EXCEPT ![r] = started]
               /\ pc' = [pc EXCEPT ![r] = "stages"]
               /\ stage' = [stage EXCEPT ![r] = 1]
    /\ UNCHANGED <<style_module, background_tasks, conversion_tasks, next_id, issued,
                   params, papers, work_dirs, outputs, retry_vars, fn_vars>>

\* what t.py's orchestrator appends after its k-th model call has returned
\* `answer`
StyleEntries(mode, k, answer) ==
    IF mode = "professional"
    THEN IF k < GENERATION_ROUNDS THEN <<"round_done", "round_started">>
         ELSE IF k = GENERATION_ROUNDS THEN <<"round_done", "selecting">>
         ELSE IF k = GENERATION_ROUNDS + 1
         THEN (IF answer = "texts" THEN <<"selected">>
               ELSE IF answer = "indices" THEN <<"recovering", "recovered">>
               ELSE <<"recovering", "defaulted">>) \o <<"suggesting">>
         ELSE <<"suggested", "success">>
    ELSE IF k = 1 THEN <<"generated", "suggesting">>
         ELSE <<"suggested", "success">>

\* What call_llm_for_style_transfer does at one call: raise (after its
\* retries), or return a list of at least four texts, a list of at least four
\* valid indices, or anything else.
StyleAnswers == {"raise", "texts", "indices", "other"}

\* one model call of t.py's try block and what follows it up to the next
\* call, with the except block when something raises
style_call(r) ==
    /\ r \in DOMAIN style_transfer_tasks
    /\ pc[r] = "stages"
    /\ LET rec == style_transfer_tasks[r]
           mode == params[r].mode
           k == stage[r]
       IN \E answer \in StyleAnswers :
          IF \/ answer = "raise"
             \/ (mode = "standard" /\ k = 1 /\ answer = "other")
          THEN /\ style_transfer_tasks' = [style_transfer_tasks EXCEPT ![r] = Fail(rec)]
               /\ pc' = [pc EXCEPT ![r] = "done"]
               /\ UNCHANGED stage
          ELSE IF k < StyleCalls(mode)
          THEN /\ style_transfer_tasks' = [style_transfer_tasks EXCEPT ![r] =
                     AppendLog(rec, StyleEntries(mode, k, answer))]
               /\ stage' = [stage EXCEPT ![r] = k + 1]
               /\ UNCHANGED pc
          ELSE /\ style_transfer_tasks' = [style_transfer_tasks EXCEPT ![r] =
                     [AppendLog(rec, StyleEntries(mode, k, answer)) EXCEPT
                          !.status = "completed",
                          !.result = [results |-> "final_results",
                                      suggestions |-> "suggestions"]]]
               /\ pc' = [pc EXCEPT ![r] = "done"]
               /\ UNCHANGED stage
    /\ UNCHANGED <<style_module, background_tasks, conversion_tasks, next_id, issued,
                   params, papers, work_dirs, outputs, retry_vars, fn_vars>>

\* ------------------------------------------------------------ status and retrieval
NotFound == [code |-> 404, status |-> "", summary |-> <<>>, link |-> None,
             detail |-> "task_not_found"]

\* the status response with the result link whatever the status is
StatusOfAlwaysLinked(rec, r, route) ==
    [code |-> 200, status |-> rec.status, summary |-> rec.summary,
     link |-> [route |-> route, run_id |-> r]]

StatusOf(rec, r, route) ==
    [code |-> 200, status |-> rec.status, summary |-> rec.summary,
     link |-> IF rec.status = "completed" THEN [route |-> route, run_id |-> r] ELSE None]

\* GET /api/arxiv/search_status/{run_id}
get_search_status(r) ==
    IF r \notin DOMAIN background_tasks THEN NotFound
    ELSE StatusOf(background_tasks[r], r, "/api/arxiv/download_result")

\* GET /api/latex_format/status/{run_id}
get_conversion_status(r) ==
    IF r \notin DOMAIN conversion_tasks THEN NotFound
    ELSE StatusOf(conversion_tasks[r], r, "/api/latex_format/download")

\* GET /api/style_transfer/status/{run_id}
get_style_transfer_status(r) ==
    IF r \notin DOMAIN style_transfer_tasks THEN NotFound
    ELSE StatusOf(style_transfer_tasks[r], r, "/api/style_transfer/results")

FileResponse(path) == [code |-> 200, path |-> path, body |-> outputs[path]]
\* HTTPException(status_code, detail); the detail texts are named
ErrorResponse(code, detail) == [code |-> code, path |-> None, body |-> None, detail |-> detail]

\* GET /api/arxiv/download_result/{run_id}
download_search_result(r) ==
    IF \/ r \notin DOMAIN background_tasks
       \/ background_tasks[r].status # "completed"
       \/ background_tasks[r].output_path = None
    THEN ErrorResponse(404, "not_completed_or_no_result")
    ELSE IF background_tasks[r].output_path \notin DOMAIN outputs
    THEN ErrorResponse(404, "file_not_found")
    ELSE FileResponse(background_tasks[r].output_path)

\* GET /api/latex_format/download/{run_id}
download_converted_file(r) ==
    IF r \notin DOMAIN conversion_tasks THEN ErrorResponse(404, "task_not_found")
    ELSE IF conversion_tasks[r].status # "completed" THEN ErrorResponse(400, "not_completed")
    ELSE IF conversion_tasks[r].output_path \notin DOMAIN outputs
    THEN ErrorResponse(404, "file_not_found")
    ELSE FileResponse(conversion_tasks[r].output_path)

\* GET /api/style_transfer/results/{run_id}
get_style_transfer_results(r) ==
    IF \/ r \notin DOMAIN style_transfer_tasks
       \/ style_transfer_tasks[r].status # "completed"
       \/ style_transfer_tasks[r].result = None
    THEN ErrorResponse(404, "not_completed_or_no_result")
    ELSE [code |-> 200, path |-> None, body |-> style_transfer_tasks[r].result]

\* ------------------------------------------------------------ retry wrapper
\* What the wrapped function does at one invocation: raise the exception
\* `value`, or return `value`.
Outcomes == [raises : BOOLEAN, value : {"a", "b"}]
Plans == [1..MaxPlanLen -> Outcomes]

\* retry_attempt numbering its warnings from 0 (`attempt` for `attempt + 1`)
retry_attempt_zero_based ==
    /\ r_pc = "call"
    /\ r_attempt < MAX_RETRIES
    /\ r_calls' = r_calls + 1
    /\ LET outcome == r_plan[r_calls + 1]
       IN IF outcome.raises
          THEN /\ r_last' = [exc |-> outcome.value, call |-> r_calls + 1]
               /\ r_warnings' = r_warnings \o
                      <<[attempt |-> r_attempt, of |-> MAX_RETRIES]>>
               /\ r_pc' = "sleep"
               /\ r_out' = r_out
          ELSE /\ r_out' = [kind |-> "return", value |-> outcome.value,
                            call |-> r_calls + 1]
               /\ r_pc' = "returned"
               /\ UNCHANGED <<r_last, r_warnings>>
    /\ UNCHANGED <<r_plan, r_attempt, r_errors, task_vars, fn_vars>>

\* utils.py 12-19: one iteration of `for attempt in range(MAX_RETRIES)` up to
\* the return, or up to time.sleep
retry_attempt ==
    /\ r_pc = "call"
    /\ r_attempt < MAX_RETRIES
    /\ r_calls' = r_calls + 1
    /\ LET outcome == r_plan[r_calls + 1]
       IN IF outcome.raises
          THEN /\ r_last' = [exc |-> outcome.value, call |-> r_calls + 1]
               /\ r_warnings' = r_warnings \o
                      <<[attempt |-> r_attempt + 1, of |-> MAX_RETRIES]>>
               /\ r_pc' = "sleep"
               /\ r_out' = r_out
          ELSE /\ r_out' = [kind |-> "return", value |-> outcome.value,
                            call |-> r_calls + 1]
               /\ r_pc' = "returned"
               /\ UNCHANGED <<r_last, r_warnings>>
    /\ UNCHANGED <<r_plan, r_attempt, r_errors, task_vars, fn_vars>>

\* utils.py 19: time.sleep(2) returns, the loop takes its next value
retry_sleep ==
    /\ r_pc = "sleep"
    /\ r_attempt' = r_attempt + 1
    /\ r_pc' = "call"
    /\ UNCHANGED <<r_plan, r_calls, r_warnings, r_errors, r_last, r_out, task_vars, fn_vars>>

\* retry_exhausted raising a new exception in place of last_exception
retry_exhausted_wraps ==
    /\ r_pc = "call"
    /\ r_attempt >= MAX_RETRIES
    /\ r_errors' = r_errors \o <<[after |-> MAX_RETRIES]>>
    /\ r_out' = [kind |-> "raise", value |-> "RetryError", call |-> 0]
    /\ r_pc' = "raised"
    /\ UNCHANGED <<r_plan, r_attempt, r_calls, r_warnings, r_last, task_vars, fn_vars>>

\* utils.py 20-21: the loop is exhausted
retry_exhausted ==
    /\ r_pc = "call"
    /\ r_attempt >= MAX_RETRIES
    /\ r_errors' = r_errors \o <<[after |-> MAX_RETRIES]>>
    /\ r_out' = [kind |-> "raise", value |-> r_last.exc, call |-> r_last.call]
    /\ r_pc' = "raised"
    /\ UNCHANGED <<r_plan, r_attempt, r_calls, r_warnings, r_last, task_vars, fn_vars>>

\* ------------------------------------------------------------ search function
\* search_arxiv_by_date_range and the file name run_arxiv_search_and_process
\* derives, followed for one run.  Texts are sequences of characters.
MaxEntryIds == 2
MaxResults == 2
FILENAME_PART_MAX == 50

Min(a, b) == IF a < b THEN a ELSE b

\* the keyword lists, target languages and dates a request may carry; date 0
\* stands for a string strptime rejects
KeywordLists ==
    { <<>>,
      << <<"a">> >>,
      << <<" ">> >>,
      << <<"a", " ", "b">>, <<"b", ",", "/", "a">> >>,
      << <<"a">>, <<"b">>, <<"a", "a">>, <<"b", "b">> >>,
      << <<" ">>, <<" ">>, <<"a">>, <<"b">> >>,
      << <<"a">>, <<"b">>, <<"a", "a">>, <<"b", "b">>, <<"a", "b">> >> }
Languages == { <<>>, <<"z", "h">>, <<" ">> }
Dates == 0..2
\* the requests: every combination of the fields for the lists of at most
\* three keywords, searched in one pass, and one language, one date range and
\* the first and the last run id for the longer lists, searched in several
\* passes
SearchParams ==
    {req \in [keywords : KeywordLists, start_date : Dates, end_date : Dates,
              max_results : 1..MaxResults, target_language : Languages,
              run_id : RunIds] :
        \/ Len(req.keywords) <= 3
        \/ /\ req.start_date = 1
           /\ req.end_date = 2
           /\ req.target_language = <<>>
           /\ req.run_id \in {1, MaxTasks}}

\* what the provider yields for one item: entry id, data, and whether its
\* publication date lies in the range
ProviderResults == [entry_id : 1..MaxEntryIds, title : {"t1", "t2"}, in_range : BOOLEAN]

\* sep.join(list)
RECURSIVE Join(_, _)
Join(list, sep) ==
    IF list = <<>> THEN <<>>
    ELSE IF Len(list) = 1 THEN list[1]
    ELSE list[1] \o <<sep>> \o Join(Tail(list), sep)

\* build_arxiv_query(phrase) = "": phrase.split() has no word
QueryIsEmpty(phrase) == \A i \in 1..Len(phrase) : phrase[i] = " "

\* re.sub(r'[\s,]+', '_', text)
RECURSIVE DropSeparators(_)
DropSeparators(text) ==
    IF text # <<>> /\ Head(text) \in {" ", ","} THEN DropSeparators(Tail(text)) ELSE text

RECURSIVE CollapseSeparators(_)
CollapseSeparators(text) ==
    IF text = <<>> THEN <<>>
    ELSE IF Head(text) \in {" ", ","}
    THEN <<"_">> \o CollapseSeparators(DropSeparators(Tail(text)))
    ELSE <<Head(text)>> \o CollapseSeparators(Tail(text))

\* [\w\-_.] over the characters of the model
FilenameChar(c) == c \in {"a", "b", "z", "h", "e", "n", "_", "-", "."}

\* arxiv_logic.py 174-178
sanitize_filename_part(text) ==
    LET kept == SelectSeq(CollapseSeparators(text), FilenameChar)
    IN SubSeq(kept, 1, Min(Len(kept), FILENAME_PART_MAX))

\* csv_filename with the run id as one more part of the name
CsvFilenameWithRunId(req, count) ==
    [topic |-> sanitize_filename_part(Join(req.keywords, "_")),
     start |-> req.start_date,
     end_ |-> req.end_date,
     lang |-> IF req.target_language # <<>>
              THEN sanitize_filename_part(req.target_language) ELSE <<"e", "n">>,
     count |-> count,
     run |-> req.run_id]

\* arxiv_logic.py 223-228: arxiv_papers_<topic>_<start>_to_<end>_<lang>_<count>.csv
CsvFilename(req, count) ==
    [topic |-> sanitize_filename_part(Join(req.keywords, "_")),
     start |-> req.start_date,
     end_ |-> req.end_date,
     lang |-> IF req.target_language # <<>>
              THEN sanitize_filename_part(req.target_language) ELSE <<"e", "n">>,
     count |-> count]

\* num_top_80 rounded down
num_top_80_floor(n) == (4 * n) \div 5

\* math.ceil(n * 0.8) and math.floor(n * 0.6)
num_top_80(n) == (4 * n + 4) \div 5
num_top_60(n) == (3 * n) \div 5

\* the orders random.shuffle may leave a list in
Perms(list) ==
    {p \in [1..Len(list) -> {list[i] : i \in 1..Len(list)}] :
        \E f \in [1..Len(list) -> 1..Len(list)] :
            /\ \A i, j \in 1..Len(list) : f[i] = f[j] => i = j
            /\ \A i \in 1..Len(list) : p[i] = list[f[i]]}

EntryIds(dict) == {dict[i].entry_id : i \in 1..Len(dict)}

\* what happens in one search, in order: an entry appended to process_log
\* (kinds range, no_keywords, skipped, search, success, warning) or a call
\* of time.sleep (kind sleep).  The entry that announces a query (74)
\* stands for the provider query that follows it, and carries its keywords.
Event(kind, words) == [kind |-> kind, words |-> words]

\* time.sleep(3) after a pass (117, 127, 145)
Pace(paced) == IF paced THEN <<Event("sleep", <<>>)>> ELSE <<>>

\* the pass that returns to `after` is followed by time.sleep(3): every pass
\* but the one with the first 60% of the keywords (136)
Paced(after, i) == ~(after = "optional" /\ i = 0)

\* _perform_search up to its for loop (68-84): an empty query is skipped
begin_pass(logged, words, after, paced) ==
    IF QueryIsEmpty(Join(words, " "))
    THEN /\ q_pc' = after
         /\ q_events' = logged \o <<Event("skipped", words)>> \o Pace(paced)
         /\ UNCHANGED <<q_after, retrieved_count>>
    ELSE /\ q_pc' = "results"
         /\ q_after' = after
         /\ retrieved_count' = 0
         /\ q_events' = Append(logged, Event("search", words))

\* search_arxiv_by_date_range refusing a range of one day
search_arxiv_by_date_range_rejects_equal ==
    /\ q_pc = "call"
    /\ LET req == q_request
           n == Len(req.keywords)
       IN IF req.start_date = 0 \/ req.end_date = 0 \/ req.start_date >= req.end_date
          THEN /\ q_pc' = "raised"
               /\ UNCHANGED <<q_after, retrieved_count, q_events>>
          ELSE IF n = 0
          THEN /\ q_pc' = "searched"
               /\ q_events' = <<Event("range", <<>>), Event("no_keywords", <<>>)>>
               /\ UNCHANGED <<q_after, retrieved_count>>
          ELSE begin_pass(<<Event("range", <<>>)>>, req.keywords,
                          IF n > 3 THEN "top80" ELSE "searched", TRUE)
    /\ UNCHANGED <<q_request, unique_papers, optional_keywords, q_i, q_seen_again,
                   q_rows, csv_filename, not_query_vars>>

\* search_arxiv_by_date_range 55-117: the date checks and the primary pass
search_arxiv_by_date_range ==
    /\ q_pc = "call"
    /\ LET req == q_request
           n == Len(req.keywords)
       IN IF req.start_date = 0 \/ req.end_date = 0 \/ req.start_date > req.end_date
          THEN /\ q_pc' = "raised"
               /\ UNCHANGED <<q_after, retrieved_count, q_events>>
          ELSE IF n = 0
          THEN /\ q_pc' = "searched"
               /\ q_events' = <<Event("range", <<>>), Event("no_keywords", <<>>)>>
               /\ UNCHANGED <<q_after, retrieved_count>>
          ELSE begin_pass(<<Event("range", <<>>)>>, req.keywords,
                          IF n > 3 THEN "top80" ELSE "searched", TRUE)
    /\ UNCHANGED <<q_request, unique_papers, optional_keywords, q_i, q_seen_again,
                   q_rows, csv_filename, not_query_vars>>

\* 121-127: the pass with the first 80% of the keywords
search_top_80 ==
    /\ q_pc = "top80"
    /\ LET keyword_list == q_request.keywords
           n == Len(keyword_list)
       IN IF num_top_80(n) < n
          THEN begin_pass(q_events, SubSeq(keyword_list, 1, num_top_80(n)), "top60", TRUE)
          ELSE /\ q_pc' = "top60"
               /\ UNCHANGED <<q_after, retrieved_count, q_events>>
    /\ UNCHANGED <<q_request, unique_papers, optional_keywords, q_i, q_seen_again,
                   q_rows, csv_filename, not_query_vars>>

\* 130-138: the pass with the first 60% of the keywords; the rest of the
\* list is copied and shuffled (the order is chosen here, it is used later)
search_top_60 ==
    /\ q_pc = "top60"
    /\ LET keyword_list == q_request.keywords
           n == Len(keyword_list)
       IN IF num_top_60(n) < n /\ num_top_60(n) > 0
          THEN /\ begin_pass(q_events, SubSeq(keyword_list, 1, num_top_60(n)),
                             "optional", Paced("optional", 0))
               /\ optional_keywords' \in Perms(SubSeq(keyword_list, num_top_60(n) + 1, n))
               /\ q_i' = 0
          ELSE /\ q_pc' = "searched"
               /\ UNCHANGED <<q_after, retrieved_count, optional_keywords, q_i, q_events>>
    /\ UNCHANGED <<q_request, unique_papers, q_seen_again,
                   q_rows, csv_filename, not_query_vars>>

\* 140-145: one iteration of the loop over the shuffled optional keywords
search_optional ==
    /\ q_pc = "optional"
    /\ LET keyword_list == q_request.keywords
           base_keywords == SubSeq(keyword_list, 1, num_top_60(Len(keyword_list)))
       IN IF q_i < Len(optional_keywords)
          THEN /\ begin_pass(q_events, base_keywords \o <<optional_keywords[q_i + 1]>>,
                             "optional", Paced("optional", q_i + 1))
               /\ q_i' = q_i + 1
          ELSE /\ q_pc' = "searched"
               /\ UNCHANGED <<q_after, retrieved_count, q_i, q_events>>
    /\ UNCHANGED <<q_request, unique_papers, optional_keywords, q_seen_again,
                   q_rows, csv_filename, not_query_vars>>

\* perform_search_result recording the data of the latest pass
perform_search_result_last_wins(result) ==
    /\ q_pc = "results"
    /\ retrieved_count < q_request.max_results
    /\ IF result.in_range /\ result.entry_id \notin EntryIds(unique_papers)
       THEN /\ unique_papers' = Append(unique_papers,
                   [entry_id |-> result.entry_id, title |-> result.title])
            /\ retrieved_count' = retrieved_count + 1
            /\ UNCHANGED q_seen_again
       ELSE /\ unique_papers' =
                   [i \in 1..Len(unique_papers) |->
                       IF result.in_range /\ unique_papers[i].entry_id = result.entry_id
                       THEN [entry_id |-> result.entry_id, title |-> result.title]
                       ELSE unique_papers[i]]
            /\ q_seen_again' =
                   (q_seen_again \/
                    (result.in_range /\
                     \E i \in 1..Len(unique_papers) :
                         /\ unique_papers[i].entry_id = result.entry_id
                         /\ unique_papers[i].title # result.title))
            /\ UNCHANGED retrieved_count
    /\ UNCHANGED <<q_request, q_pc, q_after, optional_keywords, q_i, q_events,
                   q_rows, csv_filename, not_query_vars>>

\* 85-99: one iteration of `for result in search.results()`
perform_search_result(result) ==
    /\ q_pc = "results"
    /\ retrieved_count < q_request.max_results
    /\ IF result.in_range /\ result.entry_id \notin EntryIds(unique_papers)
       THEN /\ unique_papers' = Append(unique_papers,
                   [entry_id |-> result.entry_id, title |-> result.title])
            /\ retrieved_count' = retrieved_count + 1
            /\ UNCHANGED q_seen_again
       ELSE /\ q_seen_again' =
                   (q_seen_again \/
                    (result.in_range /\
                     \E i \in 1..Len(unique_papers) :
                         /\ unique_papers[i].entry_id = result.entry_id
                         /\ unique_papers[i].title # result.title))
            /\ UNCHANGED <<unique_papers, retrieved_count>>
    /\ UNCHANGED <<q_request, q_pc, q_after, optional_keywords, q_i, q_events,
                   q_rows, csv_filename, not_query_vars>>

\* perform_search_end giving up the remaining passes when the provider raises
perform_search_end_aborts ==
    /\ q_pc = "results"
    /\ \E kind \in {"success", "warning"} :
          /\ q_events' = Append(q_events, Event(kind, <<>>)) \o Pace(Paced(q_after, q_i))
          /\ q_pc' = IF kind = "warning" THEN "searched" ELSE q_after
    /\ UNCHANGED <<q_request, q_after, unique_papers, retrieved_count, optional_keywords,
                   q_i, q_seen_again, q_rows, csv_filename,
                   not_query_vars>>

\* 86, 100-103 and the time.sleep that follows the pass: the loop ends with
\* no more results or with the break on max_results (SUCCESS), or the
\* provider raises (WARNING, nothing is raised further)
perform_search_end ==
    /\ q_pc = "results"
    /\ q_pc' = q_after
    /\ \E kind \in {"success", "warning"} :
          q_events' = Append(q_events, Event(kind, <<>>)) \o Pace(Paced(q_after, q_i))
    /\ UNCHANGED <<q_request, q_after, unique_papers, retrieved_count, optional_keywords,
                   q_i, q_seen_again, q_rows, csv_filename,
                   not_query_vars>>

\* arxiv_logic.py 148-151, 194-247: list(unique_papers.values()) is returned;
\* an empty list ends the run, any other is written row by row to the CSV
write_csv ==
    /\ q_pc = "searched"
    /\ q_rows' = [i \in 1..Len(unique_papers) |->
                     [arxiv_link |-> unique_papers[i].entry_id,
                      title |-> unique_papers[i].title]]
    /\ IF unique_papers = <<>>
       THEN /\ q_pc' = "no_papers"
            /\ UNCHANGED csv_filename
       ELSE /\ csv_filename' = CsvFilename(q_request, Len(unique_papers))
            /\ q_pc' = "written"
    /\ UNCHANGED <<q_request, q_after, unique_papers, retrieved_count, optional_keywords,
                   q_i, q_seen_again, q_events, not_query_vars>>

\* ------------------------------------------------------------ merge: splitting the source
\* Step 5 of convert_paper_format_logic up to the header merge, followed for
\* one source document.  A document is a sequence of tokens; a position is
\* the index of a token.
MaxDocLen == 3
DocTokens == {"text", "section", "input", "end_document"}
Documents == UNION {[1..n -> DocTokens] : n \in 0..MaxDocLen}

\* re.search(token, text): the position of the first match, 0 for no match
FirstIndex(text, token) ==
    IF \E i \in 1..Len(text) : text[i] = token
    THEN CHOOSE i \in 1..Len(text) :
             text[i] = token /\ \A j \in 1..(i - 1) : text[j] # token
    ELSE 0

\* content_split_index falling back to the end of the document, as the code
\* does for the format template
content_split_index_or_end(text) ==
    IF FirstIndex(text, "section") # 0 THEN FirstIndex(text, "section")
    ELSE Len(text) + 1

\* format_convert.py 208-216: \section first, then \input; 0 when neither
\* is found
content_split_index(text) ==
    IF FirstIndex(text, "section") # 0 THEN FirstIndex(text, "section")
    ELSE FirstIndex(text, "input")

\* format_convert.py 208-220: the split, or the ValueError
split_content ==
    /\ split_pc = "read"
    /\ LET at == content_split_index(content_text)
           content_end_index ==
               IF FirstIndex(content_text, "end_document") # 0
               THEN FirstIndex(content_text, "end_document")
               ELSE Len(content_text) + 1
       IN IF at = 0
          THEN /\ split_pc' = "input_error"
               /\ UNCHANGED <<content_header, content_body>>
          ELSE /\ content_header' = SubSeq(content_text, 1, at - 1)
               /\ content_body' = SubSeq(content_text, at, content_end_index - 1)
               /\ split_pc' = "split"
    /\ UNCHANGED <<content_text, header_calls, not_split_vars>>

\* format_convert.py 254-255: call_llm(header_prompt) returns, or raises
\* after its retries
merge_header ==
    /\ split_pc = "split"
    /\ header_calls' = header_calls + 1
    /\ \E ok \in BOOLEAN : split_pc' = IF ok THEN "merged" ELSE "call_failed"
    /\ UNCHANGED <<content_text, content_header, content_body,
                   not_split_vars>>

\* ------------------------------------------------------------ style: the selection
\* The professional-mode branch of t.py's run_style_transfer_logic, followed
\* for one run.  A JSON value is a non-list or a list of items; an item has
\* a type and a value: a text is numbered (candidate i is text i), true is
\* 1 and false is 0 as in Python.
MaxListLen == 4
SELECTION_SIZE == 4

Candidate(i) == [type |-> "str", value |-> i]
JsonItems == {[type |-> "str", value |-> 2], [type |-> "int", value |-> 1],
              [type |-> "int", value |-> GENERATION_ROUNDS],
              [type |-> "int", value |-> GENERATION_ROUNDS + 1],
              [type |-> "bool", value |-> 1], [type |-> "null", value |-> 0]}
JsonValues ==
    {[list |-> FALSE, items |-> <<>>]} \cup
    {[list |-> TRUE, items |-> items] :
        items \in UNION {[1..n -> JsonItems] : n \in 0..MaxListLen}}

\* isinstance(item, str), isinstance(item, int): a Python bool is an int
IsStr(item) == item.type = "str"
IsInt(item) == item.type \in {"int", "bool"}

\* the rule of backend/core/style_transfer_logic.py (147-150): any list of
\* four items is taken as it is
select_results_any_four(raw, generated) ==
    IF raw.list /\ Len(raw.items) = SELECTION_SIZE
    THEN raw.items
    ELSE SubSeq(generated, 1, Min(SELECTION_SIZE, Len(generated)))

\* t.py 164-188: the texts, or the candidates the indices name, or the first
\* four candidates
select_results(raw, generated) ==
    IF raw.list /\ (\A i \in 1..Len(raw.items) : IsStr(raw.items[i]))
       /\ Len(raw.items) >= SELECTION_SIZE
    THEN SubSeq(raw.items, 1, SELECTION_SIZE)
    ELSE LET indices_to_use ==
                 IF raw.list /\ (\A i \in 1..Len(raw.items) : IsInt(raw.items[i]))
                 THEN SelectSeq([i \in 1..Len(raw.items) |-> raw.items[i].value],
                                LAMBDA v : 0 < v /\ v <= Len(generated))
                 ELSE <<>>
         IN IF Len(indices_to_use) >= SELECTION_SIZE
            THEN [i \in 1..SELECTION_SIZE |-> generated[indices_to_use[i]]]
            ELSE SubSeq(generated, 1, Min(SELECTION_SIZE, Len(generated)))

\* t.py 62-72, the output instruction of build_prompt: with earlier versions
\* the prompt lists them and asks for one new version, without any it asks
\* for a JSON list of three to five versions
build_prompt(previous_results) ==
    [asks |-> IF previous_results # <<>> THEN "one_new_version" ELSE "list_of_versions",
     previous_results |-> previous_results]

\* t.py 130-138: one round of generation; the call returns a text, or raises
\* after its retries
generate_candidate ==
    /\ sel_pc = "generate"
    /\ sel_prompts' = Append(sel_prompts, build_prompt(generated_results))
    /\ \E ok \in BOOLEAN :
          IF ok
          THEN /\ generated_results' =
                      Append(generated_results, Candidate(Len(generated_results) + 1))
               /\ sel_pc' = IF Len(generated_results) + 1 = GENERATION_ROUNDS
                            THEN "select" ELSE "generate"
               /\ UNCHANGED sel_status
          ELSE /\ sel_pc' = "failed_generate"
               /\ sel_status' = "failed"
               /\ UNCHANGED generated_results
    /\ UNCHANGED <<sel_attempts, final_results_raw, final_results,
                   not_select_vars>>

\* What one attempt of call_llm_for_style_transfer(selection_prompt,
\* is_json=True) gives: the API call raises; the content is no JSON, also
\* after the salvage attempt (ValueError); or a parsed JSON value.
AttemptKinds == {"api_error", "unparsable", "parsed"}

\* t.py 161-190 with the retry wrapper of call_llm_for_style_transfer: one
\* attempt of the selection call and, when it returns, the choice of the
\* final results; when the last attempt raises, the except block (237-240)
select_attempt ==
    /\ sel_pc = "select"
    /\ \E kind \in AttemptKinds :
          /\ sel_attempts' = Append(sel_attempts, kind)
          /\ IF kind = "parsed"
             THEN \E raw \in JsonValues :
                     /\ final_results_raw' = raw
                     /\ final_results' = select_results(raw, generated_results)
                     /\ sel_pc' = "suggest"
                     /\ UNCHANGED sel_status
             ELSE IF Len(sel_attempts) + 1 < MAX_RETRIES
             THEN UNCHANGED <<final_results_raw, final_results, sel_pc, sel_status>>
             ELSE /\ sel_pc' = "failed_select"
                  /\ sel_status' = "failed"
                  /\ UNCHANGED <<final_results_raw, final_results>>
    /\ UNCHANGED <<generated_results, sel_prompts,
                   not_select_vars>>

\* t.py 205-235: the suggestions call returns and the task completes, or it
\* raises after its retries
suggest ==
    /\ sel_pc = "suggest"
    /\ \E ok \in BOOLEAN :
          IF ok
          THEN sel_pc' = "completed" /\ sel_status' = "completed"
          ELSE sel_pc' = "failed_suggest" /\ sel_status' = "failed"
    /\ UNCHANGED <<generated_results, sel_prompts, sel_attempts, final_results_raw,
                   final_results, not_select_vars>>

\* ------------------------------------------------------------ merge: the main file
\* find_main_tex_file under its retry wrapper, with call_llm under its own,
\* followed for one extracted tree.  The tree is given by the number of its
\* .tex files; the files are numbered from 1.
MaxTexFiles == 2

\* what one chat-completion request of call_llm gives: -1, the request raises
\* or the response is empty (53); 0, a path that does not exist in the tree;
\* k > 0, the path of file k
LlmAnswers(files) == (-1)..files

\* format_convert.py 115-125: the body of find_main_tex_file up to the prompt;
\* an exception leaves the body and is caught by the wrapper (utils.py 16)
find_main_tex_file ==
    /\ f_pc = "call"
    /\ f_runs' = f_runs + 1
    /\ IF tex_files = 0
       THEN /\ f_last' = "FileNotFoundError"
            /\ f_pc' = "sleep"
            /\ UNCHANGED <<main_file, f_warnings, llm_attempt>>
       ELSE IF tex_files = 1
       THEN /\ main_file' = 1
            /\ f_pc' = "returned"
            /\ UNCHANGED <<f_last, f_warnings, llm_attempt>>
       ELSE /\ f_warnings' = f_warnings + 1
            /\ llm_attempt' = 0
            /\ f_pc' = "call_llm"
            /\ UNCHANGED <<f_last, main_file>>
    /\ UNCHANGED <<tex_files, f_attempt, f_requests, f_answers, f_sleeps,
                   not_find_vars>>

\* format_convert.py 155-160 with one attempt of call_llm (33-53): the
\* request is sent; call_llm raises into its wrapper, or returns a path that
\* does not exist (FileNotFoundError, 157-158) or the path of a file
call_llm ==
    /\ f_pc = "call_llm"
    /\ f_requests' = f_requests + 1
    /\ \E answer \in LlmAnswers(tex_files) :
          /\ f_answers' = Append(f_answers, answer)
          /\ IF answer = -1
             THEN /\ f_last' = "ValueError"
                  /\ f_pc' = "llm_sleep"
                  /\ UNCHANGED main_file
             ELSE IF answer = 0
             THEN /\ f_last' = "FileNotFoundError"
                  /\ f_pc' = "sleep"
                  /\ UNCHANGED main_file
             ELSE /\ main_file' = answer
                  /\ f_pc' = "returned"
                  /\ UNCHANGED f_last
    /\ UNCHANGED <<tex_files, f_attempt, llm_attempt, f_sleeps, f_runs, f_warnings,
                   not_find_vars>>

\* utils.py 16-21 in the wrapper of call_llm: time.sleep(2), then the next
\* attempt, or last_exception is raised, leaves find_main_tex_file and is
\* caught by its wrapper
call_llm_retry ==
    /\ f_pc = "llm_sleep"
    /\ f_sleeps' = f_sleeps + 1
    /\ llm_attempt' = llm_attempt + 1
    /\ f_pc' = IF llm_attempt + 1 < MAX_RETRIES THEN "call_llm" ELSE "sleep"
    /\ UNCHANGED <<tex_files, f_attempt, f_requests, f_answers, f_runs, f_warnings, f_last,
                   main_file,
                   not_find_vars>>

\* utils.py 16-21 in the wrapper of find_main_tex_file: time.sleep(2), then
\* the next attempt, or last_exception is raised to convert_paper_format_logic
find_main_tex_file_retry ==
    /\ f_pc = "sleep"
    /\ f_sleeps' = f_sleeps + 1
    /\ f_attempt' = f_attempt + 1
    /\ f_pc' = IF f_attempt + 1 < MAX_RETRIES THEN "call" ELSE "raised"
    /\ UNCHANGED <<tex_files, llm_attempt, f_requests, f_answers, f_runs, f_warnings, f_last,
                   main_file,
                   not_find_vars>>

\* ------------------------------------------------------------ search: the translation
\* Lines 201-254 of run_arxiv_search_and_process for a non-blank target
\* language, followed for one list of papers.  A paper is its number and
\* whether its abstract is blank.  The coroutines are wrapped into tasks by
\* asyncio.gather and first run in the order of the list; after that the
\* event loop resumes whichever is ready.
MaxItems == 4
MAX_CONCURRENT_TRANSLATIONS == 3

PaperLists ==
    UNION {{[i \in 1..n |-> [id |-> i, blank |-> blanks[i]]] : blanks \in [1..n -> BOOLEAN]} :
              n \in 1..MaxItems}

\* what translate_one_abstract returns: "" (156), the content of the response
\* (169), or the text that reports the exception (172)
Returned(kind, of) == [kind |-> kind, of |-> of]
NotReturned == Returned("none", 0)

Items == 1..Len(t_papers)
InFlight == {i \in Items : t_co[i] = "in_flight"}

\* translate_one_abstract without the `async with semaphore`
translate_one_abstract_ungated(i) ==
    /\ t_pc = "gather"
    /\ i \in Items
    /\ t_co[i] = "created"
    /\ \A j \in 1..(i - 1) : t_co[j] # "created"
    /\ IF t_papers[i].blank
       THEN /\ t_co' = [t_co EXCEPT ![i] = "returned"]
            /\ t_returned' = [t_returned EXCEPT ![i] = Returned("empty", 0)]
            /\ t_finished' = Append(t_finished, i)
       ELSE /\ t_co' = [t_co EXCEPT ![i] = "in_flight"]
            /\ UNCHANGED <<t_returned, t_finished>>
    /\ UNCHANGED <<t_papers, t_pc, semaphore, t_rows, t_status, not_translate_vars>>

\* 154-160, the first run of the task of item i: a blank abstract returns ""
\* at once; otherwise the semaphore is acquired and the request sent, or the
\* task waits for the semaphore
translate_one_abstract(i) ==
    /\ t_pc = "gather"
    /\ i \in Items
    /\ t_co[i] = "created"
    /\ \A j \in 1..(i - 1) : t_co[j] # "created"
    /\ IF t_papers[i].blank
       THEN /\ t_co' = [t_co EXCEPT ![i] = "returned"]
            /\ t_returned' = [t_returned EXCEPT ![i] = Returned("empty", 0)]
            /\ t_finished' = Append(t_finished, i)
            /\ UNCHANGED semaphore
       ELSE IF semaphore > 0
       THEN /\ semaphore' = semaphore - 1
            /\ t_co' = [t_co EXCEPT ![i] = "in_flight"]
            /\ UNCHANGED <<t_returned, t_finished>>
       ELSE /\ t_co' = [t_co EXCEPT ![i] = "waiting"]
            /\ UNCHANGED <<semaphore, t_returned, t_finished>>
    /\ UNCHANGED <<t_papers, t_pc, t_rows, t_status, not_translate_vars>>

\* 157: a waiting task gets the semaphore and sends its request
semaphore_acquire(i) ==
    /\ t_pc = "gather"
    /\ i \in Items
    /\ t_co[i] = "waiting"
    /\ semaphore > 0
    /\ semaphore' = semaphore - 1
    /\ t_co' = [t_co EXCEPT ![i] = "in_flight"]
    /\ UNCHANGED <<t_papers, t_pc, t_finished, t_returned, t_rows, t_status, not_translate_vars>>

\* 160-172: the request of item i returns its translation, or raises and the
\* except block returns the error text; the semaphore is released
translate_response(i, ok) ==
    /\ t_pc = "gather"
    /\ i \in Items
    /\ t_co[i] = "in_flight"
    /\ semaphore' = semaphore + 1
    /\ t_co' = [t_co EXCEPT ![i] = "returned"]
    /\ t_returned' = [t_returned EXCEPT ![i] =
           IF ok THEN Returned("translation", t_papers[i].id) ELSE Returned("error", 0)]
    /\ t_finished' = Append(t_finished, i)
    /\ UNCHANGED <<t_papers, t_pc, t_rows, t_status, not_translate_vars>>

\* the results handed out in the order the coroutines returned
gather_as_completed == [k \in Items |-> t_returned[t_finished[k]]]

\* 213: asyncio.gather returns the results in the order of its arguments
gather == [k \in Items |-> t_returned[k]]

\* 213-254: gather returns when every task has returned; the results are
\* zipped with the papers, the rows written; open() or the writer may raise
translate_write ==
    /\ t_pc = "gather"
    /\ \A i \in Items : t_co[i] = "returned"
    /\ LET translated_summaries == gather
       IN \E write_ok \in BOOLEAN :
             IF write_ok
             THEN /\ t_rows' = [k \in Items |->
                         [id |-> t_papers[k].id,
                          summary_translated |-> translated_summaries[k]]]
                  /\ t_pc' = "written"
                  /\ t_status' = "completed"
             ELSE /\ t_pc' = "write_failed"
                  /\ t_status' = "failed"
                  /\ UNCHANGED t_rows
    /\ UNCHANGED <<t_papers, t_co, semaphore, t_finished, t_returned, not_translate_vars>>

\* ------------------------------------------------------------ merge: the trees
\* Lines 188-205 and 288-294 of convert_paper_format_logic, followed for one
\* pair of extracted trees.  A path is a directory, a stem and the number of
\* ".bak" before ".tex"; the content of a file is named by where it comes
\* from.  Every file of the model is a .tex file.
MaxTreeFiles == 2

Path(dir, stem, baks) == [dir |-> dir, stem |-> stem, baks |-> baks]
Paths == {Path("", "main", 0), Path("", "main", 1), Path("", "paper", 0),
          Path("sub", "paper", 0)}
Trees == {tree \in SUBSET Paths : tree # {} /\ Cardinality(tree) <= MaxTreeFiles}

\* the content of the file at `path` of the source or template archive, the
\* document the orchestrator assembles
Content(from, path) == [from |-> from, path |-> path]

\* Path.with_suffix(".bak.tex"): the last suffix is replaced
with_suffix_bak_tex(path) == [path EXCEPT !.baks = path.baks + 1]

\* format_dir / path.name
in_format_dir(path) == Path("", path.stem, path.baks)

\* 193-195: shutil.copy2(format_main_path, backup_path)
merge_backup ==
    /\ tree_pc = "backup"
    /\ format_dir' =
           [p \in DOMAIN format_dir \cup {with_suffix_bak_tex(format_main_path)} |->
               IF p = with_suffix_bak_tex(format_main_path)
               THEN format_dir[format_main_path] ELSE format_dir[p]]
    /\ tree_pc' = "copytree"
    /\ UNCHANGED <<content_dir, format_dir_0, content_main_path, format_main_path,
                   tree_content_text, tree_format_text, output_zip, tree_status,
                   not_tree_vars>>

\* 199: shutil.copytree(content_dir, format_dir, dirs_exist_ok=True): a file
\* of the source replaces the file at the same path
merge_copytree ==
    /\ tree_pc = "copytree"
    /\ format_dir' =
           [p \in DOMAIN format_dir \cup content_dir |->
               IF p \in content_dir THEN Content("content", p) ELSE format_dir[p]]
    /\ tree_pc' = "read"
    /\ UNCHANGED <<content_dir, format_dir_0, content_main_path, format_main_path,
                   tree_content_text, tree_format_text, output_zip, tree_status,
                   not_tree_vars>>

\* 201-205: content_text is read from format_dir / content_main_path.name
\* (FileNotFoundError when there is no such file), format_text from
\* format_main_path
merge_read_text ==
    /\ tree_pc = "read"
    /\ IF in_format_dir(content_main_path) \in DOMAIN format_dir
       THEN /\ tree_content_text' = format_dir[in_format_dir(content_main_path)]
            /\ tree_format_text' = format_dir[format_main_path]
            /\ tree_pc' = "merge"
            /\ UNCHANGED tree_status
       ELSE /\ tree_pc' = "failed"
            /\ tree_status' = "failed"
            /\ UNCHANGED <<tree_content_text, tree_format_text>>
    /\ UNCHANGED <<content_dir, format_dir_0, content_main_path, format_main_path,
                   format_dir, output_zip, not_tree_vars>>

\* 208-288: the split and the model calls raise, or the assembled document
\* is written to format_main_path
merge_write_text ==
    /\ tree_pc = "merge"
    /\ \E ok \in BOOLEAN :
          IF ok
          THEN /\ format_dir' = [format_dir EXCEPT
                       ![format_main_path] = Content("merged", format_main_path)]
               /\ tree_pc' = "package"
               /\ UNCHANGED tree_status
          ELSE /\ tree_pc' = "failed"
               /\ tree_status' = "failed"
               /\ UNCHANGED format_dir
    /\ UNCHANGED <<content_dir, format_dir_0, content_main_path, format_main_path,
                   tree_content_text, tree_format_text, output_zip, not_tree_vars>>

\* 292-302: shutil.make_archive of format_dir raises, or the task completes
merge_make_archive ==
    /\ tree_pc = "package"
    /\ \E ok \in BOOLEAN :
          IF ok
          THEN /\ output_zip' = format_dir
               /\ tree_pc' = "packaged"
               /\ tree_status' = "completed"
          ELSE /\ tree_pc' = "failed"
               /\ tree_status' = "failed"
               /\ UNCHANGED output_zip
    /\ UNCHANGED <<content_dir, format_dir_0, content_main_path, format_main_path,
                   format_dir, tree_content_text, tree_format_text, not_tree_vars>>

\* ------------------------------------------------------------ merge: the bibliography
\* Lines 216-220 and 257-287 of convert_paper_format_logic, followed for one
\* source document.  A document is a sequence of lines, compared whole; a
\* line is a \section line, a \bibliographystyle line, a \bibliography
\* line, \end{document} or other text.
MaxLines == 4
BibTokens == {"text", "section", "bibliographystyle", "bibliography", "end_document"}
BibDocuments == UNION {[1..n -> BibTokens] : n \in 1..MaxLines}

\* 260: line.strip().startswith(r'\bibliography'), which a
\* \bibliographystyle line satisfies too
IsBibLine(line) == line \in {"bibliographystyle", "bibliography"}

\* 258-261: the bibliography lines of `text`, in order
RECURSIVE BibLines(_)
BibLines(text) ==
    IF text = <<>> THEN <<>>
    ELSE (IF IsBibLine(Head(text)) THEN <<Head(text)>> ELSE <<>>) \o BibLines(Tail(text))

\* str.replace(old, ""): every occurrence of `old`, found from left to right
\* without overlap, is removed; `old` is not empty
RECURSIVE Replace(_, _)
Replace(text, old) ==
    IF Len(text) < Len(old) THEN text
    ELSE IF SubSeq(text, 1, Len(old)) = old
         THEN Replace(SubSeq(text, Len(old) + 1, Len(text)), old)
         ELSE <<Head(text)>> \o Replace(Tail(text), old)

\* 208-220: content_body runs from the first \section to \end{document};
\* ValueError when there is no \section (and no \input)
bib_split ==
    /\ bib_pc = "read"
    /\ LET at == content_split_index(bib_content_text)
           content_end_index ==
               IF FirstIndex(bib_content_text, "end_document") # 0
               THEN FirstIndex(bib_content_text, "end_document")
               ELSE Len(bib_content_text) + 1
       IN IF at = 0
          THEN /\ bib_pc' = "input_error"
               /\ UNCHANGED bib_content_body
          ELSE /\ bib_content_body' = SubSeq(bib_content_text, at, content_end_index - 1)
               /\ bib_pc' = "collect"
    /\ UNCHANGED <<bib_content_text, bib_format_lines, content_bib_lines,
                   final_bib_section, final_tex_content, not_bib_vars>>

\* 258-271: the bibliography lines of the whole source document; the
\* template's lines become a comment
bib_collect ==
    /\ bib_pc = "collect"
    /\ content_bib_lines' = BibLines(bib_content_text)
    /\ final_bib_section' = IF bib_format_lines THEN <<"comment">> ELSE <<>>
    /\ bib_pc' = "merge"
    /\ UNCHANGED <<bib_content_text, bib_format_lines, bib_content_body,
                   final_tex_content, not_bib_vars>>

\* 273-284: the joined lines are replaced in the body and the model's
\* declaration is appended, or call_llm raises after its retries
bib_merge ==
    /\ bib_pc = "merge"
    /\ IF content_bib_lines # <<>>
       THEN \E ok \in BOOLEAN :
               /\ bib_content_body' = Replace(bib_content_body, content_bib_lines)
               /\ IF ok
                  THEN /\ final_bib_section' = final_bib_section \o <<"merged_bib_lines">>
                       /\ bib_pc' = "assemble"
                  ELSE /\ bib_pc' = "call_failed"
                       /\ UNCHANGED final_bib_section
       ELSE /\ bib_pc' = "assemble"
            /\ UNCHANGED <<bib_content_body, final_bib_section>>
    /\ UNCHANGED <<bib_content_text, bib_format_lines, content_bib_lines,
                   final_tex_content, not_bib_vars>>

\* 287: header, body, bibliography section, \end{document}
bib_assemble ==
    /\ bib_pc = "assemble"
    /\ final_tex_content' =
           <<"merged_header">> \o bib_content_body \o final_bib_section \o <<"end_document">>
    /\ bib_pc' = "assembled"
    /\ UNCHANGED <<bib_content_text, bib_format_lines, bib_content_body,
                   content_bib_lines, final_bib_section, not_bib_vars>>

\* ------------------------------------------------------------ specifications
TaskInit ==
    /\ style_module \in StyleModules
    /\ background_tasks = EmptyDict
    /\ conversion_tasks = EmptyDict
    /\ style_transfer_tasks = EmptyDict
    /\ next_id = 1
    /\ issued = [r \in RunIds |-> ""]
    /\ pc = [r \in RunIds |-> "idle"]
    /\ stage = [r \in RunIds |-> 0]
    /\ params = [r \in RunIds |-> None]
    /\ papers = [r \in RunIds |-> 0]
    /\ work_dirs = {}
    /\ outputs = EmptyDict

RetryStart(plan) ==
    /\ r_plan = plan
    /\ r_pc = "call"
    /\ r_attempt = 0
    /\ r_calls = 0
    /\ r_warnings = <<>>
    /\ r_errors = <<>>
    /\ r_last = None
    /\ r_out = None

RetryIdle ==
    /\ r_plan = <<>>
    /\ r_pc = "idle"
    /\ r_attempt = 0
    /\ r_calls = 0
    /\ r_warnings = <<>>
    /\ r_errors = <<>>
    /\ r_last = None
    /\ r_out = None

QueryStart(req) ==
    /\ q_request = req
    /\ q_pc = "call"
    /\ q_after = ""
    /\ unique_papers = <<>>
    /\ retrieved_count = 0
    /\ optional_keywords = <<>>
    /\ q_i = 0
    /\ q_seen_again = FALSE
    /\ q_events = <<>>
    /\ q_rows = <<>>
    /\ csv_filename = None

QueryIdle ==
    /\ q_request = None
    /\ q_pc = "idle"
    /\ q_after = ""
    /\ unique_papers = <<>>
    /\ retrieved_count = 0
    /\ optional_keywords = <<>>
    /\ q_i = 0
    /\ q_seen_again = FALSE
    /\ q_events = <<>>
    /\ q_rows = <<>>
    /\ csv_filename = None

SplitStart(text) ==
    /\ content_text = text
    /\ split_pc = "read"
    /\ content_header = <<>>
    /\ content_body = <<>>
    /\ header_calls = 0

SplitIdle ==
    /\ content_text = <<>>
    /\ split_pc = "idle"
    /\ content_header = <<>>
    /\ content_body = <<>>
    /\ header_calls = 0

SelectStart ==
    /\ generated_results = <<>>
    /\ sel_prompts = <<>>
    /\ sel_pc = "generate"
    /\ sel_attempts = <<>>
    /\ final_results_raw = None
    /\ final_results = <<>>
    /\ sel_status = "processing"

\* 203-212: status translating, the semaphore and the coroutines are created
TranslateStart(list) ==
    /\ t_papers = list
    /\ t_pc = "gather"
    /\ t_co = [i \in 1..Len(list) |-> "created"]
    /\ semaphore = MAX_CONCURRENT_TRANSLATIONS
    /\ t_finished = <<>>
    /\ t_returned = [i \in 1..Len(list) |-> NotReturned]
    /\ t_rows = <<>>
    /\ t_status = "translating"

TranslateIdle ==
    /\ t_papers = <<>>
    /\ t_pc = "idle"
    /\ t_co = <<>>
    /\ semaphore = 0
    /\ t_finished = <<>>
    /\ t_returned = <<>>
    /\ t_rows = <<>>
    /\ t_status = ""

\* 182-191: both archives are extracted and find_main_tex_file has returned
\* a file of each tree: the only one, or the one the model named
TreeStart(content, format, content_main, format_main) ==
    /\ content_dir = content
    /\ format_dir_0 = format
    /\ content_main_path = content_main
    /\ format_main_path = format_main
    /\ format_dir = [p \in format |-> Content("format", p)]
    /\ tree_pc = "backup"
    /\ tree_content_text = None
    /\ tree_format_text = None
    /\ output_zip = None
    /\ tree_status = "processing"

TreeIdle ==
    /\ content_dir = {}
    /\ format_dir_0 = {}
    /\ content_main_path = None
    /\ format_main_path = None
    /\ format_dir = None
    /\ tree_pc = "idle"
    /\ tree_content_text = None
    /\ tree_format_text = None
    /\ output_zip = None
    /\ tree_status = ""

\* 204-205: the source's main file is read; the template has bibliography
\* lines or has none
BibStart(text, format_lines) ==
    /\ bib_content_text = text
    /\ bib_format_lines = format_lines
    /\ bib_pc = "read"
    /\ bib_content_body = <<>>
    /\ content_bib_lines = <<>>
    /\ final_bib_section = <<>>
    /\ final_tex_content = <<>>

BibIdle ==
    /\ bib_content_text = <<>>
    /\ bib_format_lines = FALSE
    /\ bib_pc = "idle"
    /\ bib_content_body = <<>>
    /\ content_bib_lines = <<>>
    /\ final_bib_section = <<>>
    /\ final_tex_content = <<>>

FindStart(files) ==
    /\ tex_files = files
    /\ f_pc = "call"
    /\ f_attempt = 0
    /\ llm_attempt = 0
    /\ f_requests = 0
    /\ f_answers = <<>>
    /\ f_sleeps = 0
    /\ f_runs = 0
    /\ f_warnings = 0
    /\ f_last = ""
    /\ main_file = 0

FindIdle ==
    /\ tex_files = 0
    /\ f_pc = "idle"
    /\ f_attempt = 0
    /\ llm_attempt = 0
    /\ f_requests = 0
    /\ f_answers = <<>>
    /\ f_sleeps = 0
    /\ f_runs = 0
    /\ f_warnings = 0
    /\ f_last = ""
    /\ main_file = 0

SelectIdle ==
    /\ generated_results = <<>>
    /\ sel_prompts = <<>>
    /\ sel_pc = "idle"
    /\ sel_attempts = <<>>
    /\ final_results_raw = None
    /\ final_results = <<>>
    /\ sel_status = ""

\* the task system; no single call is being followed
Init == TaskInit /\ RetryIdle /\ QueryIdle /\ SplitIdle /\ SelectIdle /\ FindIdle /\ TranslateIdle /\ TreeIdle
    /\ BibIdle

Next ==
    \E r \in RunIds :
        \/ \E req \in SearchRequests : start_arxiv_search(r, req)
        \/ create_conversion_task(r)
        \/ \E mode \in StyleModes : start_style_transfer_task(r, mode)
        \/ run_arxiv_search_and_process(r)
        \/ run_arxiv_search_resume(r)
        \/ convert_start(r)
        \/ convert_mkdir(r)
        \/ convert_stage(r)
        \/ convert_finally(r)
        \/ run_style_transfer_logic(r)
        \/ style_call(r)

Spec == Init /\ [][Next]_vars

\* one call of a wrapped function, for every plan of the function's behaviour
RetryInit ==
    /\ TaskInit /\ QueryIdle /\ SplitIdle /\ SelectIdle /\ FindIdle /\ TranslateIdle /\ TreeIdle
    /\ BibIdle
    /\ \E plan \in Plans : RetryStart(plan)

RetryNext == retry_attempt \/ retry_sleep \/ retry_exhausted

RetrySpec == RetryInit /\ [][RetryNext]_vars

\* one search, for every request and every behaviour of the provider
SearchInit ==
    /\ TaskInit /\ RetryIdle /\ SplitIdle /\ SelectIdle /\ FindIdle /\ TranslateIdle /\ TreeIdle
    /\ BibIdle
    /\ \E req \in SearchParams : QueryStart(req)

SearchNext ==
    \/ search_arxiv_by_date_range
    \/ search_top_80
    \/ search_top_60
    \/ search_optional
    \/ \E result \in ProviderResults : perform_search_result(result)
    \/ perform_search_end
    \/ write_csv

SearchSpec == SearchInit /\ [][SearchNext]_vars

\* the split of one source document, for every document
SplitInit ==
    /\ TaskInit /\ RetryIdle /\ QueryIdle /\ SelectIdle /\ FindIdle /\ TranslateIdle /\ TreeIdle
    /\ BibIdle
    /\ \E text \in Documents : SplitStart(text)

SplitNext == split_content \/ merge_header

SplitSpec == SplitInit /\ [][SplitNext]_vars

\* one professional-mode run, for every behaviour of the model calls
SelectInit ==
    /\ TaskInit /\ RetryIdle /\ QueryIdle /\ SplitIdle /\ SelectStart /\ FindIdle /\ TranslateIdle /\ TreeIdle
    /\ BibIdle
    /\ style_module = "t"

SelectNext == generate_candidate \/ select_attempt \/ suggest

SelectSpec == SelectInit /\ [][SelectNext]_vars

\* one extracted tree, for every number of .tex files and every behaviour of
\* the model calls
FindInit ==
    /\ TaskInit /\ RetryIdle /\ QueryIdle /\ SplitIdle /\ SelectIdle /\ TranslateIdle /\ TreeIdle
    /\ BibIdle
    /\ \E files \in 0..MaxTexFiles : FindStart(files)

FindNext == find_main_tex_file \/ call_llm \/ call_llm_retry \/ find_main_tex_file_retry

FindSpec == FindInit /\ [][FindNext]_vars

\* the translation stage of one search, for every list of papers and every
\* order and outcome of the model calls
TranslateInit ==
    /\ TaskInit /\ RetryIdle /\ QueryIdle /\ SplitIdle /\ SelectIdle /\ FindIdle /\ TreeIdle
    /\ BibIdle
    /\ \E list \in PaperLists : TranslateStart(list)

TranslateNext ==
    \/ \E i \in 1..MaxItems : translate_one_abstract(i)
    \/ \E i \in 1..MaxItems : semaphore_acquire(i)
    \/ \E i \in 1..MaxItems, ok \in BOOLEAN : translate_response(i, ok)
    \/ translate_write

TranslateSpec == TranslateInit /\ [][TranslateNext]_vars

\* one merge from the backup to the packaging, for every pair of trees and
\* every choice of main files
TreeInit ==
    /\ TaskInit /\ RetryIdle /\ QueryIdle /\ SplitIdle /\ SelectIdle /\ FindIdle /\ TranslateIdle
    /\ BibIdle
    /\ \E content \in Trees, format \in Trees :
          \E content_main \in content, format_main \in format :
             TreeStart(content, format, content_main, format_main)

TreeNext ==
    \/ merge_backup
    \/ merge_copytree
    \/ merge_read_text
    \/ merge_write_text
    \/ merge_make_archive

TreeSpec == TreeInit /\ [][TreeNext]_vars

\* the bibliography of one merge, for every source document
BibInit ==
    /\ TaskInit /\ RetryIdle /\ QueryIdle /\ SplitIdle /\ SelectIdle /\ FindIdle /\ TranslateIdle
    /\ TreeIdle
    /\ \E text \in BibDocuments, format_lines \in BOOLEAN : BibStart(text, format_lines)

BibNext ==
    \/ bib_split
    \/ bib_collect
    \/ bib_merge
    \/ bib_assemble

BibSpec == BibInit /\ [][BibNext]_vars

\* ------------------------------------------------------------ properties
Issued == {r \in RunIds : issued[r] # ""}
Searches == {r \in RunIds : issued[r] = "search"}
Merges == {r \in RunIds : issued[r] = "merge"}
Styles == {r \in RunIds : issued[r] = "style"}

\* what a client that holds run id r gets from the status operation of the
\* workflow that issued r
StatusQuery(r) ==
    IF issued[r] = "search" THEN get_search_status(r)
    ELSE IF issued[r] = "merge" THEN get_conversion_status(r)
    ELSE get_style_transfer_status(r)

\* the task record of an issued run id
Record(r) ==
    IF issued[r] = "search" THEN background_tasks[r]
    ELSE IF issued[r] = "merge" THEN conversion_tasks[r]
    ELSE style_transfer_tasks[r]

\* output_path of a search or merge record, result of a style record
Payload(r) == IF issued[r] = "style" THEN Record(r).result ELSE Record(r).output_path

\* the orchestrator has returned, or an exception has left it
Exited(r) == pc[r] \in {"done", "crashed"}

IsPrefix(s, t) == Len(s) <= Len(t) /\ SubSeq(t, 1, Len(s)) = s

Entries(log) == {log[i] : i \in 1..Len(log)}

\* C1: every task whose orchestrator has run to its end (every call having
\* returned or raised) has status completed or failed, also when the workspace
\* directory could not be created.
C1_ExitedIsTerminal ==
    \A r \in Issued : Exited(r) => Record(r).status \in Terminal

\* C2: the result payload of a task record is non-null exactly when the
\* task's status is completed.
C2_PayloadIffCompleted ==
    \A r \in Issued : (Payload(r) # None) <=> (Record(r).status = "completed")

\* C3: the log a status query returns is a prefix of the log any later status
\* query of the same task returns: no step removes, replaces or reorders entries.
C3_LogIsAppendOnly ==
    [][\A r \in Issued :
          IsPrefix(StatusQuery(r).summary, StatusQuery(r)'.summary)]_vars

\* C4: the status moves processing -> (translating, search only) ->
\* completed | failed, and a completed or failed status never changes.
StatusMove(workflow, old, new) ==
    \/ new = old
    \/ old = "processing" /\ new \in Terminal
    \/ old = "processing" /\ new = "translating" /\ workflow = "search"
    \/ old = "translating" /\ new \in Terminal /\ workflow = "search"

C4_StatusMonotone ==
    [][\A r \in Issued :
          StatusMove(issued[r], Record(r).status, Record(r)'.status)]_vars

\* a search task has failed after it was translating, and the other task has
\* been submitted since
C4_Witness ==
    \E r \in Searches :
        /\ Record(r).status = "failed"
        /\ "translating" \in Entries(Record(r).summary)
        /\ \E q \in Merges : Record(q).status = "completed" /\ pc[q] = "done"

\* C5: from the return of the submission handler on, a status query of a
\* task that is not terminal succeeds and returns processing (or translating,
\* for a search task) with a log of at least one entry.
C5_LiveTaskIsVisible ==
    \A r \in Issued :
        LET resp == StatusQuery(r)
        IN /\ resp.code = 200
           /\ resp.status \notin Terminal =>
                 /\ resp.status \in (IF issued[r] = "search"
                                     THEN {"processing", "translating"}
                                     ELSE {"processing"})
                 /\ Len(resp.summary) >= 1

\* a merge task whose orchestrator has taken its first step is polled while a
\* search task is translating
C5_Witness ==
    /\ \E r \in Merges : pc[r] = "mkdir" /\ StatusQuery(r).status = "processing"
    /\ \E r \in Searches : pc[r] = "gather" /\ StatusQuery(r).status = "translating"

C7_TerminalMergeHasNoWorkDir ==
    \A r \in Merges :
        get_conversion_status(r).status \in Terminal => r \notin work_dirs

\* the index of the first invocation that returns, Len(plan) + 1 if none does
FirstSuccess(plan) ==
    IF \E i \in 1..Len(plan) : ~plan[i].raises
    THEN CHOOSE i \in 1..Len(plan) :
             ~plan[i].raises /\ \A j \in 1..(i - 1) : plan[j].raises
    ELSE Len(plan) + 1

\* C8: a function that raises on its first k invocations, k < MAX_RETRIES, and
\* then returns is invoked exactly k + 1 times, the wrapper returns that
\* value, exactly k warnings are logged, numbered 1..k, and the function is
\* not invoked after its first success.
C8_RetrySuccess ==
    LET k == FirstSuccess(r_plan) - 1
    IN k < MAX_RETRIES =>
          /\ r_calls <= k + 1
          /\ r_pc # "raised"
          /\ r_pc \in {"call", "sleep"} => r_calls <= k
          /\ r_pc = "returned" =>
                /\ r_calls = k + 1
                /\ r_out = [kind |-> "return", value |-> r_plan[k + 1].value,
                            call |-> k + 1]
                /\ r_warnings = [i \in 1..k |-> [attempt |-> i, of |-> MAX_RETRIES]]
                /\ r_errors = <<>>

\* the wrapper has returned the value of the last attempt it may make
C8_Witness ==
    /\ r_pc = "returned"
    /\ r_calls = MAX_RETRIES
    /\ Len(r_warnings) = MAX_RETRIES - 1

\* C9: a function that raises at every invocation is invoked exactly
\* MAX_RETRIES times, exactly MAX_RETRIES warnings are logged, and the wrapper
\* raises the exception of the last invocation itself.
C9_RetryExhausted ==
    (\A i \in 1..MAX_RETRIES : r_plan[i].raises) =>
          /\ r_calls <= MAX_RETRIES
          /\ r_pc # "returned"
          /\ r_pc = "raised" =>
                /\ r_calls = MAX_RETRIES
                /\ r_warnings =
                       [i \in 1..MAX_RETRIES |-> [attempt |-> i, of |-> MAX_RETRIES]]
                /\ r_out = [kind |-> "raise", value |-> r_plan[MAX_RETRIES].value,
                            call |-> MAX_RETRIES]

\* the wrapper has raised, and the first and the last attempt's exceptions differ
C9_Witness ==
    /\ r_pc = "raised"
    /\ r_plan[1].value # r_plan[MAX_RETRIES].value

\* C10: a search with a valid date range for which the provider returns no
\* item ends completed, with an artifact registered on the record that holds
\* the header row only, and the download operation returns that artifact.
C10_EmptySearchHasArtifact ==
    \A r \in Searches :
        (pc[r] = "done" /\ params[r].dates_ok /\ papers[r] = 0) =>
            /\ Record(r).status = "completed"
            /\ Record(r).output_path # None
            /\ download_search_result(r).code = 200
            /\ download_search_result(r).body = CsvFile(0)

DistinctIds(dict) ==
    \A i, j \in 1..Len(dict) : dict[i].entry_id = dict[j].entry_id => i = j

\* C11: the entry ids of the rows written for a search are pairwise
\* distinct, whatever the passes and whatever the provider returns for them,
\* and an entry, once recorded, keeps the data of the pass that found it
\* first: no later result replaces or repeats it.
C11_UniqueFirstWins ==
    [][/\ DistinctIds(unique_papers')
       /\ IsPrefix(unique_papers, unique_papers')
       /\ q_pc' = "written" =>
             /\ \A i, j \in 1..Len(q_rows') :
                   q_rows'[i].arxiv_link = q_rows'[j].arxiv_link => i = j
             /\ q_rows' = [i \in 1..Len(unique_papers) |->
                              [arxiv_link |-> unique_papers[i].entry_id,
                               title |-> unique_papers[i].title]]]_vars

\* a search of several passes has written two rows, and a recorded entry id
\* had come back with other data
C11_Witness ==
    /\ q_pc = "written"
    /\ Len(q_request.keywords) > 3
    /\ Len(q_rows) = 2
    /\ q_seen_again

C14_SplitPoint ==
    LET section == FirstIndex(content_text, "section")
        input == FirstIndex(content_text, "input")
    IN split_pc \notin {"idle", "read"} =>
          /\ section # 0 =>
                /\ split_pc # "input_error"
                /\ content_header = SubSeq(content_text, 1, section - 1)
          /\ (section = 0 /\ input # 0) =>
                /\ split_pc # "input_error"
                /\ content_header = SubSeq(content_text, 1, input - 1)
                /\ Len(content_header) < Len(content_text)
          /\ (section = 0 /\ input = 0) =>
                /\ split_pc = "input_error"
                /\ header_calls = 0

\* a document without \section has been split at its \input, which is
\* neither its first nor its last token, and the header merge was called
C14_Witness ==
    /\ split_pc = "merged"
    /\ FirstIndex(content_text, "section") = 0
    /\ FirstIndex(content_text, "input") = 2
    /\ Len(content_text) = 3
    /\ content_header = <<content_text[1]>>

\* the number of well-formed text candidates of a selection response
WellFormedTexts(raw) ==
    IF raw.list THEN Cardinality({i \in 1..Len(raw.items) : raw.items[i].type = "str"})
    ELSE 0

\* a list of integers, each of them the 1-based index of a candidate
ValidIndexList(raw, generated) ==
    /\ raw.list
    /\ \A i \in 1..Len(raw.items) :
          raw.items[i].type = "int" /\ raw.items[i].value \in 1..Len(generated)

\* C15: professional mode: when the parsed selection response holds fewer
\* than four well-formed texts and is not a valid list of 1-based indices,
\* the final results are the first four generated candidates, in order.
C15_DefaultIsFirstFour ==
    (/\ sel_pc \in {"suggest", "completed", "failed_suggest"}
     /\ WellFormedTexts(final_results_raw) < SELECTION_SIZE
     /\ ~ValidIndexList(final_results_raw, generated_results))
    => final_results = SubSeq(generated_results, 1, SELECTION_SIZE)

\* C16: professional mode: once the seven candidates exist, the selection
\* responses alone never end the task as failed (a run that fails at the
\* selection has seen the API call itself raise), and the suggestions stage
\* is entered with four results.
C16_SelectionNeverFails ==
    /\ sel_pc = "failed_select" =>
          \E i \in 1..Len(sel_attempts) : sel_attempts[i] = "api_error"
    /\ sel_pc = "suggest" => Len(final_results) = SELECTION_SIZE

Workflows == {"search", "merge", "style"}

\* the status operation and the retrieval operation of a workflow, called
\* with run id r
StatusIn(workflow, r) ==
    IF workflow = "search" THEN get_search_status(r)
    ELSE IF workflow = "merge" THEN get_conversion_status(r)
    ELSE get_style_transfer_status(r)

RetrieveIn(workflow, r) ==
    IF workflow = "search" THEN download_search_result(r)
    ELSE IF workflow = "merge" THEN download_converted_file(r)
    ELSE get_style_transfer_results(r)

\* C12: two distinct runs, search or merge, never write the same output
\* path, so that no run overwrites the artifact of another.
C12_OutputPathsDiffer ==
    \A r, q \in Searches \cup Merges :
        (r # q /\ Payload(r) # None /\ Payload(q) # None) => Payload(r) # Payload(q)

\* C17: a status response carries a result link exactly when the status it
\* returns is completed, and retrieval returns a payload only for a completed
\* task: for a processing, translating or failed task it returns an error.
C17_LinkAndRetrievalGated ==
    \A r \in Issued :
        LET resp == StatusQuery(r)
            got == RetrieveIn(issued[r], r)
        IN /\ (resp.link # None) <=> (resp.status = "completed")
           /\ got.code = 200 => Record(r).status = "completed"
           /\ Record(r).status \in {"processing", "translating", "failed"} =>
                 got.code \in {400, 404} /\ got.body = None

\* one task is completed and its payload is retrieved, the other has failed
\* and its retrieval is refused
C17_Witness ==
    \E r, q \in Issued :
        /\ StatusQuery(r).status = "completed" /\ StatusQuery(r).link # None
        /\ RetrieveIn(issued[r], r).code = 200
        /\ StatusQuery(q).status = "failed" /\ StatusQuery(q).link = None
        /\ RetrieveIn(issued[q], q).code # 200

\* C18: every operation that takes a run id answers an id without a record
\* with the not-found condition, and that response differs from the one it
\* gives for a known id whose task is processing.
C18_NotFoundIsDistinct ==
    \A r \in Issued : \A u \in RunIds \ Issued :
        Record(r).status = "processing" =>
            /\ StatusIn(issued[r], u).code = 404
            /\ RetrieveIn(issued[r], u).code = 404
            /\ StatusIn(issued[r], u) # StatusIn(issued[r], r)
            /\ RetrieveIn(issued[r], u) # RetrieveIn(issued[r], r)

\* C19: no exception leaves an orchestrator: a stage that raises makes the
\* task failed with a FATAL_ERROR entry appended; and the log of a failed task
\* always ends with a FATAL_ERROR entry.
C19_FatalErrorsAreCaught ==
    \A r \in Issued :
        /\ pc[r] # "crashed"
        /\ Record(r).status = "failed" =>
              Record(r).summary[Len(Record(r).summary)] = "FATAL_ERROR"

\* the orchestrator of r has taken a step
Stepped(r) == pc'[r] # pc[r] \/ stage'[r] # stage[r]

\* C20: a step changes the record of at most one task, the one whose
\* orchestrator takes the step; after its creation a record is changed by no
\* step but those of its own orchestrator, and it is never removed.
C20_SingleWriter ==
    [][\A r \in Issued :
          /\ issued'[r] = issued[r]
          /\ Record(r)' # Record(r) =>
                /\ Stepped(r)
                /\ \A q \in Issued \ {r} : ~Stepped(q) /\ Record(q)' = Record(q)]_vars

\* two tasks are running at once: a merge in the middle of its stages and a
\* style task between two model calls
C20_Witness ==
    \E r \in Merges : \E q \in Styles :
        /\ pc[r] = "stages" /\ stage[r] > 2
        /\ pc[q] = "stages" /\ stage[q] > 2

\* ------------------------------------------------------------ the search schedule
\* the provider queries of the search so far, each as its list of keywords
Queries ==
    LET made == SelectSeq(q_events, LAMBDA e : e.kind = "search")
    IN [i \in 1..Len(made) |-> made[i].words]

SearchFinished == q_pc \in {"searched", "no_papers", "written"}

\* the smallest k with den * k >= num, the largest k with den * k <= num
CeilOf(num, den) == CHOOSE k \in 0..num : den * k >= num /\ den * (k - 1) < num
FloorOf(num, den) == CHOOSE k \in 0..num : den * k <= num /\ den * (k + 1) > num

\* the queries the schedule names for a keyword list, the remaining keywords
\* taken in the given order
Schedule(keywords, order) ==
    LET n == Len(keywords)
        top80 == CeilOf(4 * n, 5)
        top60 == FloorOf(3 * n, 5)
    IN IF n <= 3 THEN <<keywords>>
       ELSE <<keywords>>
            \o (IF top80 < n THEN <<SubSeq(keywords, 1, top80)>> ELSE <<>>)
            \o <<SubSeq(keywords, 1, top60)>>
            \o [i \in 1..Len(order) |-> SubSeq(keywords, 1, top60) \o <<order[i]>>]

Remaining(keywords) ==
    SubSeq(keywords, FloorOf(3 * Len(keywords), 5) + 1, Len(keywords))

\* a query has a word when one of its keywords has a character that is no blank
HasWord(words) == \E i \in 1..Len(words) : \E j \in 1..Len(words[i]) : words[i][j] # " "

\* C21: a failing provider call is attempted MAX_RETRIES times before the
\* failure is reported: the WARNING entry of a pass follows MAX_RETRIES
\* queries of that pass.
C21_FailingSearchIsRetried ==
    \A i \in 1..Len(q_events) :
        q_events[i].kind = "warning" =>
            /\ i > MAX_RETRIES
            /\ \A j \in 1..MAX_RETRIES : q_events[i - j].kind = "search"

\* C28: when the provider raises in a pass, the papers accumulated so far are
\* kept, the search goes on where the pass would have returned, nothing is
\* raised, and a finished search with a WARNING has made every query of its
\* schedule.
C28_ProviderFailureIsPartial ==
    [][/\ (/\ q_pc = "results"
           /\ Len(q_events') > Len(q_events)
           /\ q_events'[Len(q_events) + 1].kind = "warning")
          => (unique_papers' = unique_papers /\ q_pc' = q_after /\ q_pc' # "raised")
       /\ (q_pc' \in {"searched", "no_papers", "written"}
           /\ \E i \in 1..Len(q_events') : q_events'[i].kind = "warning")
          => \E order \in Perms(Remaining(q_request.keywords)) :
                 Queries' = SelectSeq(Schedule(q_request.keywords, order), HasWord)
      ]_vars

C28_Witness ==
    /\ q_pc = "written"
    /\ Len(q_request.keywords) = 5
    /\ q_events[3].kind = "warning"
    /\ Len(Queries) = 5
    /\ Len(q_rows) = MaxResults

\* C29: as stated: a finished search of N >= 1 keywords has made exactly the
\* queries of the schedule, in its order.
C29_ScheduleAsStated ==
    (SearchFinished /\ Len(q_request.keywords) >= 1) =>
        \E order \in Perms(Remaining(q_request.keywords)) :
            Queries = Schedule(q_request.keywords, order)

\* C29: a finished search of N >= 1 keywords has made exactly the queries of
\* the schedule that have a word, in the order of the schedule; a query with
\* no word is skipped.
C29_ScheduleOfQueriesWithWords ==
    (SearchFinished /\ Len(q_request.keywords) >= 1) =>
        \E order \in Perms(Remaining(q_request.keywords)) :
            Queries = SelectSeq(Schedule(q_request.keywords, order), HasWord)

C29_Witness ==
    /\ SearchFinished
    /\ Len(q_request.keywords) = 5
    /\ Len(Queries) = 5
    /\ Queries[2] = SubSeq(q_request.keywords, 1, 4)
    /\ Queries[3] = SubSeq(q_request.keywords, 1, 3)

\* C30: between two consecutive provider queries of one search there is a
\* call of time.sleep.
C30_QueriesArePaced ==
    \A i, j \in 1..Len(q_events) :
        (i < j /\ q_events[i].kind = "search" /\ q_events[j].kind = "search") =>
            \E k \in i..j : q_events[k].kind = "sleep"

\* C22: one execution of the main-file stage sends at most MAX_RETRIES
\* requests to the model.
C22_RequestsPerStage == f_requests <= MAX_RETRIES

\* C23: a tree with no .tex file is an input error: when the stage has
\* failed, find_main_tex_file has been executed once and no retry delay has
\* been taken.
C23_InputErrorIsNotRetried ==
    (tex_files = 0 /\ f_pc = "raised") => (f_runs = 1 /\ f_sleeps = 0)

\* C24: an attempt of the selection call whose content is no JSON, also after
\* the salvage, is the last request of the stage, and the stage fails.
C24_SalvageFailureIsFatal ==
    /\ \A i \in 1..Len(sel_attempts) :
           sel_attempts[i] = "unparsable" => i = Len(sel_attempts)
    /\ ("unparsable" \in {sel_attempts[i] : i \in 1..Len(sel_attempts)} /\ sel_pc # "select")
           => sel_status = "failed"

\* C26: every generation call of the professional mode, the first included,
\* asks for one new version and is given the earlier candidates in order;
\* seven calls are made before the selection.
C26_SevenSingleCandidateCalls ==
    /\ \A i \in 1..Len(sel_prompts) :
           /\ sel_prompts[i].asks = "one_new_version"
           /\ sel_prompts[i].previous_results =
                  SubSeq(generated_results, 1, i - 1)
    /\ sel_pc \notin {"generate", "failed_generate"} => Len(sel_prompts) = GENERATION_ROUNDS

\* C27: when the selection response is not a list of at least four texts:
\* a list of integers with at least four valid 1-based indices gives the
\* candidates at the first four valid indices, in the listed order; every
\* other response gives the first four candidates.
C27_IndexRecovery ==
    sel_pc \in {"suggest", "completed", "failed_suggest"} =>
        LET items == final_results_raw.items
            texts == /\ final_results_raw.list
                     /\ Len(items) >= SELECTION_SIZE
                     /\ \A i \in 1..Len(items) : items[i].type = "str"
            integers == /\ final_results_raw.list
                        /\ \A i \in 1..Len(items) : items[i].type = "int"
            valid == SelectSeq([i \in 1..Len(items) |-> items[i].value],
                               LAMBDA v : v \in 1..GENERATION_ROUNDS)
        IN ~texts =>
              IF integers /\ Len(valid) >= SELECTION_SIZE
              THEN final_results = [i \in 1..SELECTION_SIZE |-> generated_results[valid[i]]]
              ELSE final_results = SubSeq(generated_results, 1, SELECTION_SIZE)

\* C25: a standard-mode run started through the API makes one generation
\* call; when it has completed it has made the suggestions call as well.
C25_StandardRunCalls ==
    \A r \in Styles :
        (/\ r \in DOMAIN style_transfer_tasks
         /\ params[r].mode = "standard"
         /\ "mode" \in params[r].keys
         /\ pc[r] = "done")
        => /\ stage[r] >= 1
           /\ style_transfer_tasks[r].status = "completed" => stage[r] = StyleCalls("standard")

\* C40: a professional-mode run that has completed holds exactly four texts
\* as its results, whatever the selection response was, and has completed
\* only after seven generation calls, a selection call that returned and
\* the suggestions call.
C40_CompletedHasFourTexts ==
    sel_status = "completed" =>
        /\ Len(final_results) = SELECTION_SIZE
        /\ \A i \in 1..Len(final_results) : final_results[i].type = "str"
        /\ Len(generated_results) = GENERATION_ROUNDS
        /\ Len(sel_prompts) = GENERATION_ROUNDS
        /\ sel_attempts # <<>>
        /\ sel_attempts[Len(sel_attempts)] = "parsed"
        /\ sel_pc = "completed"

\* a run has completed on a selection response that is a list of four items
\* which are not all texts
C40_Witness ==
    /\ sel_status = "completed"
    /\ final_results_raw.list
    /\ Len(final_results_raw.items) = SELECTION_SIZE
    /\ \E i \in 1..SELECTION_SIZE : final_results_raw.items[i].type # "str"
    /\ Len(sel_attempts) > 1

\* C34: a tree with one .tex file gives that file without a model request; a
\* tree with none ends with a not-found error; in a tree with several the
\* returned file is a file of the tree, and once the model has named a path
\* that does not exist the stage ends with a not-found error.
C34_MainFileLocation ==
    /\ (tex_files = 1 /\ f_pc = "returned") => (main_file = 1 /\ f_requests = 0)
    /\ (tex_files = 0 /\ f_pc \in {"returned", "raised"})
          => (f_pc = "raised" /\ f_last = "FileNotFoundError" /\ f_requests = 0)
    /\ (tex_files > 1 /\ f_pc = "returned") => main_file \in 1..tex_files
    /\ (/\ tex_files > 1
        /\ f_pc \in {"returned", "raised"}
        /\ \E i \in 1..Len(f_answers) : f_answers[i] = 0)
          => (f_pc = "raised" /\ f_last = "FileNotFoundError")

\* C33: a search whose start or end date does not parse, or whose start date
\* is later than its end date, raises to the orchestrator (which sets the
\* task to failed) before any provider query, log entry or file; every other
\* search, one of a single day included, never raises, whatever the provider
\* yields or raises and whatever the keywords are.
C33_OnlyBadDatesFail ==
    LET bad == \/ q_request.start_date = 0
               \/ q_request.end_date = 0
               \/ q_request.start_date > q_request.end_date
    IN /\ (bad /\ q_pc # "call")
             => (q_pc = "raised" /\ q_events = <<>> /\ q_rows = <<>> /\ csv_filename = None)
       /\ ~bad => q_pc # "raised"

\* a search of a single day has finished, with a provider failure and no paper
C33_Witness ==
    /\ q_request.start_date = q_request.end_date
    /\ q_request.start_date # 0
    /\ q_pc = "no_papers"
    /\ \E i \in 1..Len(q_events) : q_events[i].kind = "warning"

\* C37: the log entries of a finished search pass become visible on the task
\* record while the task is still in its retrieval stage (status processing),
\* so that a status query issued then finds them.
C37_PassesVisibleWhileProcessing ==
    [][\A r \in Searches :
          (/\ r \in DOMAIN background_tasks
           /\ Entries(background_tasks[r].summary) \cap {"search_pass", "search_warning"} = {}
           /\ Entries(background_tasks'[r].summary) \cap {"search_pass", "search_warning"} # {})
          => get_search_status(r)'.status = "processing"
      ]_vars

\* C31: at most MAX_CONCURRENT_TRANSLATIONS translation requests are in
\* flight; the gate never holds back a waiting item while it is free and
\* nothing else can run, so every item is processed; and the rows are
\* written only when the coroutine of every item has returned.
C31_BoundedConcurrentTranslations ==
    /\ Cardinality(InFlight) <= MAX_CONCURRENT_TRANSLATIONS
    /\ (t_pc = "gather" /\ InFlight = {} /\ \A i \in Items : t_co[i] # "created")
          => (semaphore > 0 \/ \A i \in Items : t_co[i] = "returned")
    /\ t_pc \in {"written", "write_failed"}
          => \A i \in Items : t_co[i] = "returned" /\ t_returned[i] # NotReturned

\* the gate is full and a fourth item waits for it
C31_Witness ==
    /\ Cardinality(InFlight) = MAX_CONCURRENT_TRANSLATIONS
    /\ \E i \in Items : t_co[i] = "waiting"

\* C32: once the rows are written there is one row per paper, in the order
\* of the papers; the row of a paper holds the translation of that paper, the
\* error text if its own request failed, or "" if its abstract is blank,
\* whatever order the requests returned in; the task is completed, and it is
\* failed only when writing the file failed.
C32_TranslationFailureIsInline ==
    /\ t_pc = "written" =>
          /\ t_status = "completed"
          /\ Len(t_rows) = Len(t_papers)
          /\ \A k \in Items :
                /\ t_rows[k].id = t_papers[k].id
                /\ t_rows[k].summary_translated \in
                       {Returned("translation", t_papers[k].id), Returned("error", 0),
                        Returned("empty", 0)}
                /\ t_rows[k].summary_translated = t_returned[k]
                /\ t_papers[k].blank <=> t_rows[k].summary_translated = Returned("empty", 0)
    /\ t_status = "failed" => t_pc = "write_failed"

\* the request of the first paper failed and returned last, that of the
\* second one returned first, and the rows are written
C32_Witness ==
    /\ t_pc = "written"
    /\ Len(t_papers) = MaxItems
    /\ t_returned[1] = Returned("error", 0)
    /\ t_finished[1] = 2
    /\ t_finished[MaxItems] = 1
    /\ t_rows[2].summary_translated = Returned("translation", 2)

\* C35: the packaged tree of a merge holds, at the backup path, the
\* template's main file as it was extracted.
C35_BackupIsPackaged ==
    tree_pc = "packaged" =>
        /\ with_suffix_bak_tex(format_main_path) \in DOMAIN output_zip
        /\ output_zip[with_suffix_bak_tex(format_main_path)] =
               Content("format", format_main_path)

\* C36: the text read as the template's document, whose header goes to the
\* header-merge call, is the template's main file as it was extracted.
C36_TemplateHeaderIsTemplates ==
    tree_pc \in {"merge", "package", "packaged"} =>
        tree_format_text = Content("format", format_main_path)

\* C38: the text read as the source's document is the source's main file,
\* wherever it lies in the source tree, and reading it does not fail.
C38_SourceMainIsRead ==
    /\ tree_pc \in {"merge", "package", "packaged"} =>
           tree_content_text = Content("content", content_main_path)
    /\ (tree_pc = "failed" /\ tree_content_text = None) =>
           in_format_dir(content_main_path) \in DOMAIN format_dir

\* C39: an assembled document that ends with a synthesized bibliography
\* declaration holds no bibliography line of the source in its body.
C39_SourceBibLinesAreRemoved ==
    (bib_pc = "assembled"
        /\ \E i \in 1..Len(final_bib_section) : final_bib_section[i] = "merged_bib_lines")
    => \A i \in 1..Len(final_tex_content) : ~IsBibLine(final_tex_content[i])

====
